---- MODULE Spec2Model ----
(***************************************************************************)
(* Model of the neuro-lib network engine: Signal / Input / Neuron / Layer  *)
(* / Network, the activation and loss function collections, the weight     *)
(* initialisation and the JSON (de)serialisation.                          *)
(*                                                                         *)
(* Numbers.  A JavaScript number is modelled as a fixed-point value in     *)
(* units of 0.01 (Unit = 1.0): sums and differences are exact, a product   *)
(* or quotient is rounded to the nearest unit, as every floating-point     *)
(* operation rounds to the nearest representable value.  Math.exp,         *)
(* Math.log, Math.sqrt and Math.cos are tabulated on that grid.            *)
(*                                                                         *)
(* Objects.  Signal objects live in a heap `signals` (id -> value); a      *)
(* connection holds the id of the Signal it references, so sharing a       *)
(* Signal is sharing an id.  Function objects of the two collections are   *)
(* singletons and are modelled by their functionName.                      *)
(***************************************************************************)
EXTENDS Integers, Sequences, FiniteSets, TLC

VARIABLES
    pc,            \* "new": no network yet; "idle": between calls; otherwise the position inside backward
    layers,        \* Network.layers
    inputSignals,  \* Network.inputSignals: ids of the input Signal objects
    lossFunction,  \* Network.lossFunction
    signals,       \* heap of Signal objects: id -> Signal.value
    rng,           \* the process-wide random source: its seed and the number of Math.random() calls made
    bw,            \* the frame of the running backward call: expectedOutput, learningRate, deltaMatrix, layerIndex
    op,            \* the last operation called
    arg,           \* its argument
    res,           \* its outcome: "ok" or the error it threw
    ret,           \* the value it returned, when it returns one other than the network
    steps,         \* number of calls made so far that changed the network
    trainer        \* NetworkTrainer.train, when it drives the network: its options, data and loop variables

vars == <<pc, layers, inputSignals, lossFunction, signals, rng, bw, op, arg, res, ret, steps, trainer>>

----------------------------------------------------------------------------
(* Bounds *)

\* layers of a network
MaxLayers == 3
\* neurons of a network, over all its layers
MaxNeurons == 4
\* calls that change the network, after its construction
MaxSteps == 3

(* 1.0 on the grid; one unit is 0.01, the LeakyReLU slope *)
Unit == 100

NoValue == "undefined"
NaN == "NaN"
\* what a method returns that ends with `return this`
This == "this"

----------------------------------------------------------------------------
(* Arithmetic on the grid *)

Abs(x) == IF x < 0 THEN -x ELSE x

Max2(a, b) == IF a >= b THEN a ELSE b

Min2(a, b) == IF a <= b THEN a ELSE b

\* a / b rounded to the nearest integer, halves away from zero (b # 0)
RDiv(a, b) ==
    LET n == Abs(a)
        d == Abs(b)
        q == (2 * n + d) \div (2 * d)
    IN  IF (a < 0) = (b < 0) THEN q ELSE -q

Mul(a, b) == RDiv(a * b, Unit)

Div(a, b) == RDiv(a * Unit, b)

RECURSIVE SumSeq(_)
SumSeq(s) == IF s = <<>> THEN 0 ELSE s[1] + SumSeq(Tail(s))

RECURSIVE MaxSeq(_)
MaxSeq(s) == IF Len(s) = 1 THEN s[1] ELSE Max2(s[1], MaxSeq(Tail(s)))

\* Math.exp: 100 * e^(k/2) for k = -10 .. 10, the argument rounded to the nearest half
ExpTable == <<1, 1, 2, 3, 5, 8, 14, 22, 37, 61, 100,
              165, 272, 448, 739, 1218, 2009, 3312, 5460, 9002, 14841>>

\* the largest argument (about -745.14) for which Math.exp returns 0: e^x is then below half
\* the smallest positive double
ExpUnderflow == -74514

Exp(x) ==
    IF x <= ExpUnderflow THEN 0
    ELSE ExpTable[Max2(-10, Min2(10, RDiv(x, 50))) + 11]

\* Math.log: 100 * ln(p / 100) for p = 1 .. 100
LnTable == <<-461, -391, -351, -322, -300, -281, -266, -253, -241, -230,
             -221, -212, -204, -197, -190, -183, -177, -171, -166, -161,
             -156, -151, -147, -143, -139, -135, -131, -127, -124, -120,
             -117, -114, -111, -108, -105, -102, -99, -97, -94, -92,
             -89, -87, -84, -82, -80, -78, -76, -73, -71, -69,
             -67, -65, -63, -62, -60, -58, -56, -54, -53, -51,
             -49, -48, -46, -45, -43, -42, -40, -39, -37, -36,
             -34, -33, -31, -30, -29, -27, -26, -25, -24, -22,
             -21, -20, -19, -17, -16, -15, -14, -13, -12, -11,
             -9, -8, -7, -6, -5, -4, -3, -2, -1, 0>>

\* ln(1e-15), what Math.log(0 + 1e-15) returns
LnEpsilon == -3454

\* Math.log of a positive grid value; above 1.0 by ln(p) = 1 + ln(p / e)
RECURSIVE Ln(_)
Ln(p) == IF p <= Unit THEN LnTable[p] ELSE Unit + Ln(Max2(1, RDiv(p * Unit, 272)))

\* the integer part of the square root of n > 0, by Newton's iteration from x
RECURSIVE Newton(_, _)
Newton(n, x) ==
    LET y == (x + n \div x) \div 2
    IN  IF y >= x THEN x ELSE Newton(n, y)

\* Math.sqrt of a non-negative grid value, rounded to the nearest unit
Sqrt(x) ==
    IF x = 0 THEN 0
    ELSE LET n == Unit * x
             f == Newton(n, n)
         IN  IF n - f * f > f THEN f + 1 ELSE f

\* Math.cos(2 * PI * v) for v in [0, 1), v rounded to the nearest eighth of a turn
CosTable == <<100, 71, 0, -71, -100, -71, 0, 71>>

Cos2Pi(v) == CosTable[(RDiv(v * 8, Unit) % 8) + 1]

----------------------------------------------------------------------------
(* functions/activation.ts *)

ActivationFunctionNames == {"ReLU", "LeakyReLU", "Sigmoid", "Softmax"}

ReLU(values) == [i \in DOMAIN values |-> Max2(0, values[i])]

\* the derivative, 0 at exactly 0 as well
ReLUDerivativeStrict(values) == [i \in DOMAIN values |-> IF values[i] > 0 THEN Unit ELSE 0]

ReLUDerivative(values) == [i \in DOMAIN values |-> IF values[i] >= 0 THEN Unit ELSE 0]

LeakyReLU(values) == [i \in DOMAIN values |-> IF values[i] > 0 THEN values[i] ELSE Mul(1, values[i])]

LeakyReLUDerivative(values) == [i \in DOMAIN values |-> IF values[i] > 0 THEN Unit ELSE 1]

Sigmoid(values) == [i \in DOMAIN values |-> Div(Unit, Unit + Exp(-values[i]))]

SigmoidDerivative(values) ==
    [i \in DOMAIN values |->
        LET sigmoid == Div(Unit, Unit + Exp(-values[i]))
        IN  Mul(sigmoid, Unit - sigmoid)]

\* Softmax, the exponentials returned as they are, not divided by their sum
SoftmaxExponentials(values) ==
    IF values = <<>> THEN <<>>
    ELSE [i \in DOMAIN values |-> Exp(values[i] - MaxSeq(values))]

Softmax(values) ==
    IF values = <<>> THEN <<>>
    ELSE LET maxValue == MaxSeq(values)
             exponentials == [i \in DOMAIN values |-> Exp(values[i] - maxValue)]
             sum == SumSeq(exponentials)
         IN  [i \in DOMAIN values |-> Div(exponentials[i], sum)]

\* the derivative, as the diagonal of the Jacobian: s * (1 - s)
SoftmaxDerivativeDiagonal(values) ==
    [i \in DOMAIN values |-> Mul(Softmax(values)[i], Unit - Softmax(values)[i])]

SoftmaxDerivative(values) == [i \in DOMAIN values |-> Unit]

\* calling the function object f on a vector
Activation(f, values) ==
    CASE f = "ReLU" -> ReLU(values)
      [] f = "LeakyReLU" -> LeakyReLU(values)
      [] f = "Sigmoid" -> Sigmoid(values)
      [] f = "Softmax" -> Softmax(values)

\* f.derivative(values)
ActivationDerivative(f, values) ==
    CASE f = "ReLU" -> ReLUDerivative(values)
      [] f = "LeakyReLU" -> LeakyReLUDerivative(values)
      [] f = "Sigmoid" -> SigmoidDerivative(values)
      [] f = "Softmax" -> SoftmaxDerivative(values)

----------------------------------------------------------------------------
(* functions/loss.ts *)

LossFunctionNames == {"MSE", "CrossEntropy"}

\* loss += 0.5 * error * error, for i < predicted.length
MSE(predicted, expected) ==
    SumSeq([i \in DOMAIN predicted |->
        LET error == predicted[i] - expected[i]
        IN  Mul(Mul(50, error), error)])

MSEDerivative(predicted, expected) ==
    [index \in DOMAIN predicted |-> predicted[index] - expected[index]]

\* loss -= expected[i] * Math.log(predicted[i] + 1e-15); the logarithm of a negative number is NaN
CrossEntropy(predicted, expected) ==
    IF \E i \in DOMAIN predicted : predicted[i] < 0 THEN NaN
    ELSE 0 - SumSeq([i \in DOMAIN predicted |->
            Mul(expected[i], IF predicted[i] = 0 THEN LnEpsilon ELSE Ln(predicted[i]))])

\* the derivative of the cross-entropy taken per output, -e / p
CrossEntropyDerivativeRaw(predicted, expected) ==
    [index \in DOMAIN predicted |-> 0 - Div(expected[index] * Unit, predicted[index] * Unit)]

CrossEntropyDerivative(predicted, expected) ==
    [index \in DOMAIN predicted |-> predicted[index] - expected[index]]

Loss(f, predicted, expected) ==
    CASE f = "MSE" -> MSE(predicted, expected)
      [] f = "CrossEntropy" -> CrossEntropy(predicted, expected)

LossDerivative(f, predicted, expected) ==
    CASE f = "MSE" -> MSEDerivative(predicted, expected)
      [] f = "CrossEntropy" -> CrossEntropyDerivative(predicted, expected)

----------------------------------------------------------------------------
(* functions/random.ts.  Math.random() is a pseudo-random generator: its   *)
(* n-th value is a function of the hidden seed.  A draw is a grid value in *)
(* [0, 1).  A function that draws takes the number of calls made so far    *)
(* and returns its value with the new number of calls.                     *)

Seeds == {3}

MathRandom(seed, n) == (seed * 29 + n * 37 + n * n * 11) % Unit

\* while (u === 0) u = Math.random(): the index of the first non-zero draw after call n
RECURSIVE NonZeroDraw(_, _)
NonZeroDraw(seed, n) ==
    IF MathRandom(seed, n + 1) # 0 THEN n + 1 ELSE NonZeroDraw(seed, n + 1)

randomNormal(mean, stdDev, seed, calls) ==
    LET iu == NonZeroDraw(seed, calls)
        iv == NonZeroDraw(seed, iu)
        u == MathRandom(seed, iu)
        v == MathRandom(seed, iv)
        z == Mul(Sqrt(Mul(-2 * Unit, Ln(u))), Cos2Pi(v))
    IN  [value |-> Mul(z, stdDev) + mean, calls |-> iv]

randomUniform(min, max, seed, calls) ==
    [value |-> Mul(MathRandom(seed, calls + 1), max - min) + min, calls |-> calls + 1]

randomNormalHe(fanIn, seed, calls) ==
    LET stdDev == Sqrt(Div(2 * Unit, fanIn * Unit))
    IN  randomNormal(0, stdDev, seed, calls)

randomUniformXavier(fanIn, fanOut, seed, calls) ==
    LET limit == Sqrt(Div(6 * Unit, (fanIn + fanOut) * Unit))
    IN  randomUniform(-limit, limit, seed, calls)

----------------------------------------------------------------------------
(* neuron.ts, layer.ts *)

\* new Input(signal): a new object, known by its allocation number id
NewInput(signal, id) == [signal |-> signal, weight |-> 0, id |-> id]

\* new Neuron(): its output is a new Signal, allocated at heap id `output`
NewNeuron(output) == [inputs |-> <<>>, bias |-> 0, preActivation |-> 0, output |-> output]

\* addInputs, the Input objects made once per Signal and pushed to every neuron
addInputsShared(neuron, sigs, allocated) ==
    [neuron EXCEPT !.inputs = @ \o [k \in 1..Len(sigs) |-> NewInput(sigs[k], k)]]

\* Neuron.addInputs(signals), `allocated` Input objects existing before the call
addInputs(neuron, sigs, allocated) ==
    [neuron EXCEPT !.inputs = @ \o [k \in 1..Len(sigs) |-> NewInput(sigs[k], allocated + k)]]

\* new Layer(neuronsNumber, activationFunction); its neurons' output Signals get the ids after `allocated`
NewLayer(neuronsNumber, activationFunction, allocated) ==
    [neurons |-> [j \in 1..neuronsNumber |-> NewNeuron(allocated + j)],
     activationFunction |-> activationFunction]

\* connect, every connection referencing the output of the first neuron of the previous layer
connectFirst(layer, previousLayer, allocated) ==
    [layer EXCEPT !.neurons =
        [j \in 1..Len(layer.neurons) |->
            [layer.neurons[j] EXCEPT !.inputs =
                [k \in 1..Len(previousLayer.neurons) |->
                    NewInput(previousLayer.neurons[1].output,
                             allocated + (j - 1) * Len(previousLayer.neurons) + k)]]]]

\* Layer.connect(previousLayer), `allocated` Input objects existing before the call
connect(layer, previousLayer, allocated) ==
    [layer EXCEPT !.neurons =
        [j \in 1..Len(layer.neurons) |->
            [layer.neurons[j] EXCEPT !.inputs =
                [k \in 1..Len(previousLayer.neurons) |->
                    NewInput(previousLayer.neurons[k].output,
                             allocated + (j - 1) * Len(previousLayer.neurons) + k)]]]]

\* Layer.outputValues
outputValues(layer, sigs) == [j \in 1..Len(layer.neurons) |-> sigs[layer.neurons[j].output]]

\* Neuron.computePreActivation(): bias + sum of weight * signal.value
computePreActivation(neuron, sigs) ==
    [neuron EXCEPT !.preActivation =
        neuron.bias + SumSeq([k \in 1..Len(neuron.inputs) |->
            Mul(neuron.inputs[k].weight, sigs[neuron.inputs[k].signal])])]

\* forward, each activation added to the value the output Signal holds
LayerForwardAccumulating(layer, sigs) ==
    LET computed == [j \in 1..Len(layer.neurons) |-> computePreActivation(layer.neurons[j], sigs)]
        preActivations == [j \in 1..Len(computed) |-> computed[j].preActivation]
        activations == Activation(layer.activationFunction, preActivations)
    IN  [layer |-> [layer EXCEPT !.neurons = computed],
         signals |-> [id \in 1..Len(sigs) |->
            IF \E j \in 1..Len(computed) : computed[j].output = id
            THEN sigs[id] + activations[CHOOSE j \in 1..Len(computed) : computed[j].output = id]
            ELSE sigs[id]]]

\* forward, the activation function applied to each pre-activation on its own
LayerForwardPerNeuron(layer, sigs) ==
    LET computed == [j \in 1..Len(layer.neurons) |-> computePreActivation(layer.neurons[j], sigs)]
        activations == [j \in 1..Len(computed) |->
            Activation(layer.activationFunction, <<computed[j].preActivation>>)[1]]
    IN  [layer |-> [layer EXCEPT !.neurons = computed],
         signals |-> [id \in 1..Len(sigs) |->
            IF \E j \in 1..Len(computed) : computed[j].output = id
            THEN activations[CHOOSE j \in 1..Len(computed) : computed[j].output = id]
            ELSE sigs[id]]]

\* Layer.forward(): the layer after the call and the heap after the call
LayerForward(layer, sigs) ==
    LET computed == [j \in 1..Len(layer.neurons) |-> computePreActivation(layer.neurons[j], sigs)]
        preActivations == [j \in 1..Len(computed) |-> computed[j].preActivation]
        activations == Activation(layer.activationFunction, preActivations)
    IN  [layer |-> [layer EXCEPT !.neurons = computed],
         signals |-> [id \in 1..Len(sigs) |->
            IF \E j \in 1..Len(computed) : computed[j].output = id
            THEN activations[CHOOSE j \in 1..Len(computed) : computed[j].output = id]
            ELSE sigs[id]]]

----------------------------------------------------------------------------
(* network.ts: construction *)

RECURSIVE NeuronsBefore(_, _)
\* number of neurons (hence of output Signals) of the first n layer configs
NeuronsBefore(layerConfigs, n) ==
    IF n = 0 THEN 0 ELSE layerConfigs[n].neurons + NeuronsBefore(layerConfigs, n - 1)

\* this.layers = layerConfigs.map(config => new Layer(config.neurons, config.activationFunction))
NewLayers(layerConfigs) ==
    [i \in 1..Len(layerConfigs) |->
        NewLayer(layerConfigs[i].neurons, layerConfigs[i].activationFunction,
                 NeuronsBefore(layerConfigs, i - 1))]

\* the default loss function, from the last layer's activation function
DefaultLossFunction(ls) ==
    IF ls[Len(ls)].activationFunction = "Softmax" THEN "CrossEntropy" ELSE "MSE"

\* number of Input objects initInputs has created when it comes to layer i
RECURSIVE InputsBefore(_, _)
InputsBefore(ls, i) ==
    IF i = 1 THEN 0
    ELSE InputsBefore(ls, i - 1) +
         Len(ls[i - 1].neurons) * Len(ls[IF i = 2 THEN 1 ELSE i - 2].neurons)

\* Network.initInputs(): new input Signals after the `allocated` existing ones, first layer wired
\* to them, every later layer connected to the one before
initInputs(ls, allocated) ==
    IF Len(ls) > 0
    THEN LET ins == [k \in 1..Len(ls[1].neurons) |-> allocated + k]
             first == [ls[1] EXCEPT !.neurons =
                          [j \in 1..Len(ls[1].neurons) |->
                              addInputs(ls[1].neurons[j], ins, (j - 1) * Len(ins))]]
         IN  [inputSignals |-> ins,
              layers |-> [i \in 1..Len(ls) |->
                  IF i = 1 THEN first ELSE connect(ls[i], ls[i - 1], InputsBefore(ls, i))]]
    ELSE [inputSignals |-> <<>>, layers |-> ls]

\* neuron.inputs.forEach(input => input.weight = ...), from input k on
RECURSIVE InitWeights(_, _, _, _, _, _, _)
InitWeights(inputs, k, activationFunction, fanIn, fanOut, seed, calls) ==
    IF k > Len(inputs) THEN [inputs |-> inputs, calls |-> calls]
    ELSE LET r == IF activationFunction = "Sigmoid"
                  THEN randomUniformXavier(fanIn, fanOut, seed, calls)
                  ELSE randomNormalHe(fanIn, seed, calls)
         IN  InitWeights([inputs EXCEPT ![k].weight = r.value], k + 1,
                         activationFunction, fanIn, fanOut, seed, r.calls)

\* layer.neurons.forEach(neuron => ...), from neuron j on
RECURSIVE InitNeurons(_, _, _, _, _, _, _)
InitNeurons(neurons, j, activationFunction, fanIn, fanOut, seed, calls) ==
    IF j > Len(neurons) THEN [neurons |-> neurons, calls |-> calls]
    ELSE LET b == randomUniform(0, 5, seed, calls)
             w == InitWeights(neurons[j].inputs, 1, activationFunction, fanIn, fanOut, seed, b.calls)
         IN  InitNeurons([neurons EXCEPT ![j].bias = b.value, ![j].inputs = w.inputs], j + 1,
                         activationFunction, fanIn, fanOut, seed, w.calls)

\* the initialisation, the scheme chosen for the whole network from its first layer's
\* activation function
RECURSIVE initWeightAndBiasesNetworkWide(_, _, _, _, _)
initWeightAndBiasesNetworkWide(ls, layerIndex, nInputs, seed, calls) ==
    IF layerIndex > Len(ls) THEN [layers |-> ls, calls |-> calls]
    ELSE LET layer == ls[layerIndex]
             fanIn == IF layerIndex = 1 THEN nInputs ELSE Len(ls[layerIndex - 1].neurons)
             fanOut == IF layerIndex = Len(ls) THEN Len(layer.neurons)
                       ELSE Len(ls[layerIndex + 1].neurons)
             n == InitNeurons(layer.neurons, 1, ls[1].activationFunction, fanIn, fanOut, seed, calls)
         IN  initWeightAndBiasesNetworkWide([ls EXCEPT ![layerIndex].neurons = n.neurons],
                                            layerIndex + 1, nInputs, seed, n.calls)

\* Network.initWeightAndBiases(), from layer layerIndex on
RECURSIVE initWeightAndBiases(_, _, _, _, _)
initWeightAndBiases(ls, layerIndex, nInputs, seed, calls) ==
    IF layerIndex > Len(ls) THEN [layers |-> ls, calls |-> calls]
    ELSE LET layer == ls[layerIndex]
             fanIn == IF layerIndex = 1 THEN nInputs ELSE Len(ls[layerIndex - 1].neurons)
             fanOut == IF layerIndex = Len(ls) THEN Len(layer.neurons)
                       ELSE Len(ls[layerIndex + 1].neurons)
             n == InitNeurons(layer.neurons, 1, layer.activationFunction, fanIn, fanOut, seed, calls)
         IN  initWeightAndBiases([ls EXCEPT ![layerIndex].neurons = n.neurons],
                                 layerIndex + 1, nInputs, seed, n.calls)

\* the guard, off by one: a single layer is rejected too
ConstructorThrowsOffByOne(layerConfigs) == Len(layerConfigs) <= 1

\* does the constructor throw "Network must contain at least one layer"
ConstructorThrows(layerConfigs) == Len(layerConfigs) = 0

\* the resolution, the explicit loss function ignored
ResolveLossFunctionDefaultOnly(ls, lossFn) == DefaultLossFunction(ls)

\* the loss function the constructor stores
ResolveLossFunction(ls, lossFn) ==
    IF lossFn # NoValue THEN lossFn ELSE DefaultLossFunction(ls)

\* new Network(layerConfigs, lossFunction): the object built, with the heap of its Signals
\* (all 0) and the number of Math.random() calls made
NewNetwork(layerConfigs, lossFn, seed, calls) ==
    LET created == NewLayers(layerConfigs)
        nOut == NeuronsBefore(layerConfigs, Len(layerConfigs))
        wired == initInputs(created, nOut)
        init == initWeightAndBiases(wired.layers, 1, Len(wired.inputSignals), seed, calls)
    IN  [layers |-> init.layers,
         inputSignals |-> wired.inputSignals,
         lossFunction |-> ResolveLossFunction(created, lossFn),
         signals |-> [id \in 1..(nOut + Len(wired.inputSignals)) |-> 0],
         calls |-> init.calls]

----------------------------------------------------------------------------
(* The callers' inputs *)

ActivationOrder == <<"ReLU", "LeakyReLU", "Sigmoid", "Softmax">>

\* layer specifications: the empty one, and up to MaxLayers layers of MaxNeurons neurons in
\* all, whose activation functions follow ActivationOrder from any starting point
LayerConfigLists ==
    {<<>>} \cup
    UNION {{[i \in 1..n |-> [neurons |-> sz[i],
                             activationFunction |-> ActivationOrder[((a + i) % 4) + 1]]]
              : sz \in {t \in [1..n -> 1..MaxNeurons] : SumSeq(t) <= MaxNeurons}, a \in 0..3}
           : n \in 1..MaxLayers}

LossArguments == {NoValue, "MSE", "CrossEntropy"}

\* the input vector of a given length: the ramp -0.5, 1.0, -1.5, ... of alternating sign
VectorsOfLength(n) == {[k \in 1..n |-> IF k % 2 = 1 THEN -50 * k ELSE 50 * k]}

\* input vectors: of the right length n, one element short, one element long
InputVectors(n) ==
    VectorsOfLength(n) \cup {[k \in 1..(n + 1) |-> Unit]}
        \cup (IF n > 0 THEN {[k \in 1..(n - 1) |-> Unit]} ELSE {})

\* expected-output vectors: the one-hot vectors of length n for the first and the last class,
\* one an element short, one an element long
OneHot(n, c) == [k \in 1..n |-> IF k = c THEN Unit ELSE 0]

ExpectedVectors(n) ==
    {OneHot(n, c) : c \in {1, n}} \cup {OneHot(n + 1, 1)}
        \cup (IF n > 1 THEN {OneHot(n - 1, 1)} ELSE {<<>>})

LearningRates == {10}

NoFrame == [expectedOutput |-> <<>>, learningRate |-> 0, deltaMatrix |-> <<>>, layerIndex |-> 0]

\* no training is running
NoTrainer == [epochs |-> 0, learningRate |-> 0, data |-> <<>>, epoch |-> 0, i |-> 0]

----------------------------------------------------------------------------
(* network.ts: the operations *)

Init ==
    /\ pc = "new"
    /\ layers = <<>>
    /\ inputSignals = <<>>
    /\ lossFunction = NoValue
    /\ signals = <<>>
    /\ rng \in {[seed |-> s, calls |-> 0] : s \in Seeds}
    /\ bw = NoFrame
    /\ op = "none"
    /\ arg = NoValue
    /\ res = "ok"
    /\ ret = NoValue
    /\ steps = 0
    /\ trainer = NoTrainer

\* new Network(layerConfigs, lossFn)
Constructor(layerConfigs, lossFn) ==
    /\ pc = "new"
    /\ op' = "constructor"
    /\ arg' = [layerConfigs |-> layerConfigs, lossFunction |-> lossFn]
    /\ ret' = NoValue
    /\ IF ConstructorThrows(layerConfigs)
       THEN /\ res' = "EmptyNetwork"
            /\ UNCHANGED <<pc, layers, inputSignals, lossFunction, signals, rng, bw, steps>>
       ELSE \E net \in {NewNetwork(layerConfigs, lossFn, rng.seed, rng.calls)} :
                /\ res' = "ok"
                /\ pc' = "idle"
                /\ layers' = net.layers
                /\ inputSignals' = net.inputSignals
                /\ lossFunction' = net.lossFunction
                /\ signals' = net.signals
                /\ rng' = [rng EXCEPT !.calls = net.calls]
                /\ UNCHANGED <<bw, steps>>

Construct ==
    /\ pc = "new"
    /\ \E layerConfigs \in LayerConfigLists, lossFn \in LossArguments :
          Constructor(layerConfigs, lossFn)
    /\ UNCHANGED trainer

\* the guard, rejecting only a vector that is too short
SetInputSignalsThrowsShortOnly(values) == Len(values) < Len(inputSignals)

\* does setInputSignals throw "Input array length does not match ..."
SetInputSignalsThrows(values) == Len(values) # Len(inputSignals)

\* setInputSignals, every other Signal reset to 0
setInputSignalsResetting(values) ==
    /\ pc = "idle"
    /\ op' = "setInputSignals"
    /\ arg' = values
    /\ IF SetInputSignalsThrows(values)
       THEN /\ res' = "ShapeMismatch"
            /\ ret' = NoValue
            /\ UNCHANGED <<signals, steps>>
       ELSE /\ res' = "ok"
            /\ ret' = This
            /\ steps' = steps + 1
            /\ signals' = [id \in 1..Len(signals) |->
                  IF \E index \in 1..Len(inputSignals) : inputSignals[index] = id
                  THEN values[CHOOSE index \in 1..Len(inputSignals) : inputSignals[index] = id]
                  ELSE 0]
    /\ UNCHANGED <<pc, layers, inputSignals, lossFunction, rng, bw>>

\* network.setInputSignals(values)
setInputSignals(values) ==
    /\ pc = "idle"
    /\ op' = "setInputSignals"
    /\ arg' = values
    /\ IF SetInputSignalsThrows(values)
       THEN /\ res' = "ShapeMismatch"
            /\ ret' = NoValue
            /\ UNCHANGED <<signals, steps>>
       ELSE /\ res' = "ok"
            /\ ret' = This
            /\ steps' = steps + 1
            /\ signals' = [id \in 1..Len(signals) |->
                  IF \E index \in 1..Len(inputSignals) : inputSignals[index] = id
                  THEN values[CHOOSE index \in 1..Len(inputSignals) : inputSignals[index] = id]
                  ELSE signals[id]]
    /\ UNCHANGED <<pc, layers, inputSignals, lossFunction, rng, bw>>

SetInputSignals ==
    /\ pc = "idle"
    /\ steps < MaxSteps
    /\ \E values \in InputVectors(Len(inputSignals)) : setInputSignals(values)
    /\ UNCHANGED trainer

\* this.layers.forEach(layer => layer.forward()), from layer i on
RECURSIVE ForwardLayers(_, _, _)
ForwardLayers(ls, i, sigs) ==
    IF i > Len(ls) THEN [layers |-> ls, signals |-> sigs]
    ELSE LET f == LayerForward(ls[i], sigs)
         IN  ForwardLayers([ls EXCEPT ![i] = f.layer], i + 1, f.signals)

\* network.forward()
forward ==
    /\ pc = "idle"
    /\ steps' = steps + 1
    /\ op' = "forward"
    /\ arg' = NoValue
    /\ res' = "ok"
    /\ ret' = This
    /\ \E f \in {ForwardLayers(layers, 1, signals)} :
           /\ layers' = f.layers
           /\ signals' = f.signals
    /\ UNCHANGED <<trainer, pc, inputSignals, lossFunction, rng, bw>>

\* forward, called on a network used directly
Forward ==
    /\ steps < MaxSteps
    /\ forward

\* the tests' initialisation: every neuron.bias = bias and every input.weight = weight
AssignAll(ls, bias, weight) ==
    [i \in 1..Len(ls) |-> [ls[i] EXCEPT !.neurons =
        [j \in 1..Len(ls[i].neurons) |->
            [ls[i].neurons[j] EXCEPT
                !.bias = bias,
                !.inputs = [k \in 1..Len(ls[i].neurons[j].inputs) |->
                               [ls[i].neurons[j].inputs[k] EXCEPT !.weight = weight]]]]]]

\* the (bias, weight) pair of the forward-propagation test: (0, 1)
TestParameters == {<<0, Unit>>}

\* direct assignment of the public fields, right after construction
AssignParameters ==
    /\ pc = "idle"
    /\ op = "constructor"
    /\ \E bwt \in TestParameters : layers' = AssignAll(layers, bwt[1], bwt[2])
    /\ op' = "assign"
    /\ UNCHANGED <<trainer, pc, inputSignals, lossFunction, signals, rng, bw, arg, res, ret, steps>>

\* this.lastLayer
lastLayer == layers[Len(layers)]

\* the guard, rejecting only a vector that is too short
ExpectedOutputThrowsShortOnly(expectedOutput) == Len(expectedOutput) < Len(lastLayer.neurons)

\* does backward / calculateLoss throw "Expected output length does not match ..."
ExpectedOutputThrows(expectedOutput) == Len(expectedOutput) # Len(lastLayer.neurons)

\* const deltaMatrix = this.layers.map(layer => Array.from({ length: layer.neurons.length }, () => 0))
ZeroDeltaMatrix(ls) == [i \in 1..Len(ls) |-> [j \in 1..Len(ls[i].neurons) |-> 0]]

\* backward, starting with a forward pass on the current weights and input values
backwardCallForwarding(expectedOutput, learningRate) ==
    /\ pc = "idle"
    /\ op' = "backward"
    /\ arg' = [expectedOutput |-> expectedOutput, learningRate |-> learningRate]
    /\ ret' = NoValue
    /\ IF ExpectedOutputThrows(expectedOutput)
       THEN /\ res' = "ShapeMismatch"
            /\ UNCHANGED <<pc, bw, steps, layers, signals>>
       ELSE \E f \in {ForwardLayers(layers, 1, signals)} :
            /\ res' = "running"
            /\ steps' = steps + 1
            /\ pc' = "outputDelta"
            /\ layers' = f.layers
            /\ signals' = f.signals
            /\ bw' = [expectedOutput |-> expectedOutput,
                      learningRate |-> learningRate,
                      deltaMatrix |-> ZeroDeltaMatrix(layers),
                      layerIndex |-> Len(layers)]
    /\ UNCHANGED <<inputSignals, lossFunction, rng>>

\* network.backward(expectedOutput, learningRate): the length check and the allocation of deltaMatrix
backwardCall(expectedOutput, learningRate) ==
    /\ pc = "idle"
    /\ op' = "backward"
    /\ arg' = [expectedOutput |-> expectedOutput, learningRate |-> learningRate]
    /\ ret' = NoValue
    /\ IF ExpectedOutputThrows(expectedOutput)
       THEN /\ res' = "ShapeMismatch"
            /\ UNCHANGED <<pc, bw, steps>>
       ELSE /\ res' = "running"
            /\ steps' = steps + 1
            /\ pc' = "outputDelta"
            /\ bw' = [expectedOutput |-> expectedOutput,
                      learningRate |-> learningRate,
                      deltaMatrix |-> ZeroDeltaMatrix(layers),
                      layerIndex |-> Len(layers)]
    /\ UNCHANGED <<layers, inputSignals, lossFunction, signals, rng>>

BackwardCall ==
    /\ pc = "idle"
    /\ steps < MaxSteps
    /\ \E expectedOutput \in ExpectedVectors(Len(lastLayer.neurons)), learningRate \in LearningRates :
        backwardCall(expectedOutput, learningRate)
    /\ UNCHANGED trainer

\* the deltas of the output layer, the activation derivative never applied
OutputDeltasLossOnly(layer, lossFn, sigs, expectedOutput) ==
    LossDerivative(lossFn, outputValues(layer, sigs), expectedOutput)

\* the deltas of the output layer
OutputDeltas(layer, lossFn, sigs, expectedOutput) ==
    LET lossDerivatives == LossDerivative(lossFn, outputValues(layer, sigs), expectedOutput)
        outputPreActivations == [j \in 1..Len(layer.neurons) |-> layer.neurons[j].preActivation]
        outputActivationDerivatives ==
            ActivationDerivative(layer.activationFunction, outputPreActivations)
    IN  [neuronIndex \in 1..Len(layer.neurons) |->
            IF layer.activationFunction = "Softmax"
            THEN lossDerivatives[neuronIndex]
            ELSE Mul(lossDerivatives[neuronIndex], outputActivationDerivatives[neuronIndex])]

\* backward: "Calculate deltas for output layer"
backwardOutputDelta ==
    /\ pc = "outputDelta"
    /\ bw' = [bw EXCEPT
                !.deltaMatrix[Len(layers)] =
                    OutputDeltas(lastLayer, lossFunction, signals, bw.expectedOutput),
                !.layerIndex = Len(layers) - 1]
    /\ pc' = IF Len(layers) - 1 >= 1 THEN "hiddenDelta" ELSE "update"
    /\ UNCHANGED <<trainer, layers, inputSignals, lossFunction, signals, rng, op, arg, res,
                 ret, steps>>

\* the deltas of a hidden layer, the error sum alone
HiddenDeltasSumOnly(layer, nextLayer, nextDeltas) ==
    [neuronIndex \in 1..Len(layer.neurons) |->
        SumSeq([nextNeuronIndex \in 1..Len(nextLayer.neurons) |->
            Mul(nextLayer.neurons[nextNeuronIndex].inputs[neuronIndex].weight,
                nextDeltas[nextNeuronIndex])])]

\* the deltas of layer `layer`, whose next layer is nextLayer with deltas nextDeltas
HiddenDeltas(layer, nextLayer, nextDeltas) ==
    LET preActivations == [j \in 1..Len(layer.neurons) |-> layer.neurons[j].preActivation]
        activationDerivatives == ActivationDerivative(layer.activationFunction, preActivations)
    IN  [neuronIndex \in 1..Len(layer.neurons) |->
            LET sum == SumSeq([nextNeuronIndex \in 1..Len(nextLayer.neurons) |->
                          Mul(nextLayer.neurons[nextNeuronIndex].inputs[neuronIndex].weight,
                              nextDeltas[nextNeuronIndex])])
            IN  Mul(sum, activationDerivatives[neuronIndex])]

\* one turn of the loop, the biases of the next layer updated as soon as its deltas are used
backwardHiddenDeltaEager ==
    /\ pc = "hiddenDelta"
    /\ LET layerIndex == bw.layerIndex
       IN  /\ bw' = [bw EXCEPT
                       !.deltaMatrix[layerIndex] =
                           HiddenDeltas(layers[layerIndex], layers[layerIndex + 1],
                                        bw.deltaMatrix[layerIndex + 1]),
                       !.layerIndex = layerIndex - 1]
           /\ layers' = [layers EXCEPT ![layerIndex + 1].neurons =
                  [n \in 1..Len(layers[layerIndex + 1].neurons) |->
                      [layers[layerIndex + 1].neurons[n] EXCEPT
                          !.bias = @ - Mul(bw.learningRate, bw.deltaMatrix[layerIndex + 1][n])]]]
           /\ pc' = IF layerIndex - 1 >= 1 THEN "hiddenDelta" ELSE "update"
    /\ UNCHANGED <<trainer, inputSignals, lossFunction, signals, rng, op, arg, res, ret, steps>>

\* backward: one turn of the loop "Calculate deltas for hidden layers"
backwardHiddenDelta ==
    /\ pc = "hiddenDelta"
    /\ LET layerIndex == bw.layerIndex
       IN  /\ bw' = [bw EXCEPT
                       !.deltaMatrix[layerIndex] =
                           HiddenDeltas(layers[layerIndex], layers[layerIndex + 1],
                                        bw.deltaMatrix[layerIndex + 1]),
                       !.layerIndex = layerIndex - 1]
           /\ pc' = IF layerIndex - 1 >= 1 THEN "hiddenDelta" ELSE "update"
    /\ UNCHANGED <<trainer, layers, inputSignals, lossFunction, signals, rng, op, arg, res,
                 ret, steps>>

\* the layers after "Update weights and biases"
UpdatedLayers(ls, sigs, deltaMatrix, learningRate) ==
    [layerIndex \in 1..Len(ls) |-> [ls[layerIndex] EXCEPT !.neurons =
        [neuronIndex \in 1..Len(ls[layerIndex].neurons) |->
            LET neuron == ls[layerIndex].neurons[neuronIndex]
                delta == deltaMatrix[layerIndex][neuronIndex]
            IN  [neuron EXCEPT
                    !.inputs = [k \in 1..Len(neuron.inputs) |->
                        LET gradient == Mul(delta, sigs[neuron.inputs[k].signal])
                        IN  [neuron.inputs[k] EXCEPT !.weight = @ - Mul(learningRate, gradient)]],
                    !.bias = @ - Mul(learningRate, delta)]]]]

\* the update, followed by a forward pass that refreshes the outputs
backwardUpdateForwarding ==
    /\ pc = "update"
    /\ \E f \in {ForwardLayers(UpdatedLayers(layers, signals, bw.deltaMatrix, bw.learningRate),
                                 1, signals)} :
           /\ layers' = f.layers
           /\ signals' = f.signals
    /\ pc' = "idle"
    /\ res' = "ok"
    /\ ret' = This
    /\ bw' = NoFrame
    /\ UNCHANGED <<trainer, inputSignals, lossFunction, rng, op, arg, steps>>

\* backward: "Update weights and biases", and the return
backwardUpdate ==
    /\ pc = "update"
    /\ layers' = UpdatedLayers(layers, signals, bw.deltaMatrix, bw.learningRate)
    /\ pc' = "idle"
    /\ res' = "ok"
    /\ ret' = This
    /\ bw' = NoFrame
    /\ UNCHANGED <<trainer, inputSignals, lossFunction, signals, rng, op, arg, steps>>

\* calculateLoss, running a forward pass first to refresh the outputs
calculateLossForwarding(expectedOutput) ==
    /\ pc = "idle"
    /\ op' = "calculateLoss"
    /\ arg' = expectedOutput
    /\ IF ExpectedOutputThrows(expectedOutput)
       THEN /\ res' = "ShapeMismatch"
            /\ ret' = NoValue
            /\ UNCHANGED <<layers, signals>>
       ELSE \E f \in {ForwardLayers(layers, 1, signals)} :
            /\ res' = "ok"
            /\ ret' = Loss(lossFunction, outputValues(f.layers[Len(f.layers)], f.signals), expectedOutput)
            /\ layers' = f.layers
            /\ signals' = f.signals
    /\ UNCHANGED <<pc, inputSignals, lossFunction, rng, bw, steps>>

\* network.calculateLoss(expectedOutput)
calculateLoss(expectedOutput) ==
    /\ pc = "idle"
    /\ op' = "calculateLoss"
    /\ arg' = expectedOutput
    /\ IF ExpectedOutputThrows(expectedOutput)
       THEN /\ res' = "ShapeMismatch"
            /\ ret' = NoValue
       ELSE /\ res' = "ok"
            /\ ret' = Loss(lossFunction, outputValues(lastLayer, signals), expectedOutput)
    /\ UNCHANGED <<pc, layers, inputSignals, lossFunction, signals, rng, bw, steps>>

CalculateLoss ==
    /\ pc = "idle"
    /\ \E expectedOutput \in ExpectedVectors(Len(lastLayer.neurons)) : calculateLoss(expectedOutput)
    /\ UNCHANGED trainer

\* 10 ** fractionDigits
RECURSIVE Pow10(_)
Pow10(n) == IF n = 0 THEN 1 ELSE 10 * Pow10(n - 1)

\* the scaling, rounded down
RoundScaledDown(value, fractionDigits) == (value * Pow10(fractionDigits)) \div Unit

\* Math.round(10 ** fractionDigits * value): the nearest integer, halves upwards
RoundScaled(value, fractionDigits) ==
    (2 * value * Pow10(fractionDigits) + Unit) \div (2 * Unit)

\* the division, by 10 ** 6 whatever precision is given
UnscaledDefaultDigits(stored, fractionDigits) == RDiv(stored * Unit, Pow10(6))

\* stored / 10 ** fractionDigits, as a grid value
Unscaled(stored, fractionDigits) == RDiv(stored * Unit, Pow10(fractionDigits))

\* network.toJSON(fractionDigits): the document
NetworkJSON(ls, lossFn, fractionDigits) ==
    [layers |-> [i \in 1..Len(ls) |->
        [neurons |-> [j \in 1..Len(ls[i].neurons) |->
            [bias |-> RoundScaled(ls[i].neurons[j].bias, fractionDigits),
             weights |-> [k \in 1..Len(ls[i].neurons[j].inputs) |->
                 RoundScaled(ls[i].neurons[j].inputs[k].weight, fractionDigits)]]],
         activationFunction |-> ls[i].activationFunction]],
     lossFunction |-> lossFn]

\* the precisions callers pass: a coarse one and the default
FractionDigits == {1, 6}

\* network.toJSON(fractionDigits)
toJSON(fractionDigits) ==
    /\ pc = "idle"
    /\ op' = "toJSON"
    /\ arg' = fractionDigits
    /\ res' = "ok"
    /\ ret' = NetworkJSON(layers, lossFunction, fractionDigits)
    /\ UNCHANGED <<pc, layers, inputSignals, lossFunction, signals, rng, bw, steps>>

ToJSON ==
    /\ \E fractionDigits \in FractionDigits : toJSON(fractionDigits)
    /\ UNCHANGED trainer

\* the documents a caller may hand to fromJSON, given a document json that toJSON returned:
\* json itself; json with one more weight for the first neuron than it has connections; json
\* with an unrecognised activation-function or loss-function name.  (A document with fewer
\* weights than connections makes fromJSON store NaN weights; the model does not follow it.)
Documents(json) ==
    LET weights == json.layers[1].neurons[1].weights
    IN  {json,
         [json EXCEPT !.layers[1].neurons[1].weights = weights \o <<7>>],
         [json EXCEPT !.layers[1].activationFunction = "InvalidFunc"],
         [json EXCEPT !.lossFunction = "InvalidFunc"]}

\* what a lookup of an unrecognised name throws
UnknownFunction == "UnknownFunction"

\* the lookup, an unrecognised name giving the default of the Layer constructor
ActivationFunctionCollectionGetDefault(name) ==
    CASE name = "ReLU" -> "ReLU"
      [] name = "LeakyReLU" -> "LeakyReLU"
      [] name = "Sigmoid" -> "Sigmoid"
      [] name = "Softmax" -> "Softmax"
      [] OTHER -> "ReLU"

\* ActivationFunctionCollection.get(name): the function (known by its functionName), or the throw
ActivationFunctionCollectionGet(name) ==
    CASE name = "ReLU" -> "ReLU"
      [] name = "LeakyReLU" -> "LeakyReLU"
      [] name = "Sigmoid" -> "Sigmoid"
      [] name = "Softmax" -> "Softmax"
      [] OTHER -> UnknownFunction

\* LossFunctionCollection.get(name)
LossFunctionCollectionGet(name) ==
    CASE name = "MSE" -> "MSE"
      [] name = "CrossEntropy" -> "CrossEntropy"
      [] OTHER -> UnknownFunction

\* names handed to the lookups: the six function names and names that are none of them
LookupNames ==
    {"ReLU", "LeakyReLU", "Sigmoid", "Softmax", "MSE", "CrossEntropy",
     "InvalidFunc", "relu", "softmax", "mse", ""}

\* does ActivationFunctionCollection.get / LossFunctionCollection.get throw for some name of json
GetThrows(json) ==
    \/ \E i \in 1..Len(json.layers) :
          ActivationFunctionCollectionGet(json.layers[i].activationFunction) = UnknownFunction
    \/ LossFunctionCollectionGet(json.lossFunction) = UnknownFunction

\* the layer configurations fromJSON builds from json
JSONLayerConfigs(json) ==
    [i \in 1..Len(json.layers) |->
        [neurons |-> Len(json.layers[i].neurons),
         activationFunction |-> ActivationFunctionCollectionGet(json.layers[i].activationFunction)]]

\* the loading, of the weights only: every bias stays as the constructor drew it
LoadedLayersWeightsOnly(ls, json, fractionDigits) ==
    [layerIndex \in 1..Len(ls) |-> [ls[layerIndex] EXCEPT !.neurons =
        [neuronIndex \in 1..Len(ls[layerIndex].neurons) |->
            LET storedNeuron == json.layers[layerIndex].neurons[neuronIndex]
                neuron == ls[layerIndex].neurons[neuronIndex]
            IN  [neuron EXCEPT
                    !.inputs = [inputIndex \in 1..Len(neuron.inputs) |->
                        [neuron.inputs[inputIndex] EXCEPT !.weight =
                            Unscaled(storedNeuron.weights[inputIndex], fractionDigits)]]]]]]

\* "Load weights and biases": the layers ls with every bias and weight taken from json
LoadedLayers(ls, json, fractionDigits) ==
    [layerIndex \in 1..Len(ls) |-> [ls[layerIndex] EXCEPT !.neurons =
        [neuronIndex \in 1..Len(ls[layerIndex].neurons) |->
            LET storedNeuron == json.layers[layerIndex].neurons[neuronIndex]
                neuron == ls[layerIndex].neurons[neuronIndex]
            IN  [neuron EXCEPT
                    !.bias = Unscaled(storedNeuron.bias, fractionDigits),
                    !.inputs = [inputIndex \in 1..Len(neuron.inputs) |->
                        [neuron.inputs[inputIndex] EXCEPT !.weight =
                            Unscaled(storedNeuron.weights[inputIndex], fractionDigits)]]]]]]

\* fromJSON, the network constructed without the stored loss function
fromJSONDefaultLoss(json, fractionDigits) ==
    /\ pc = "idle"
    /\ op' = "fromJSON"
    /\ arg' = [json |-> json, fractionDigits |-> fractionDigits]
    /\ ret' = NoValue
    /\ IF GetThrows(json)
       THEN /\ res' = "UnknownFunction"
            /\ UNCHANGED <<pc, layers, inputSignals, lossFunction, signals, rng, bw, steps>>
       ELSE IF ConstructorThrows(JSONLayerConfigs(json))
       THEN /\ res' = "EmptyNetwork"
            /\ UNCHANGED <<pc, layers, inputSignals, lossFunction, signals, rng, bw, steps>>
       ELSE \E net \in {NewNetwork(JSONLayerConfigs(json), NoValue, rng.seed, rng.calls)} :
                /\ res' = "ok"
                /\ steps' = steps + 1
                /\ layers' = LoadedLayers(net.layers, json, fractionDigits)
                /\ inputSignals' = net.inputSignals
                /\ lossFunction' = net.lossFunction
                /\ signals' = net.signals
                /\ rng' = [rng EXCEPT !.calls = net.calls]
                /\ UNCHANGED <<pc, bw>>

\* network = Network.fromJSON(json, fractionDigits): the network of the model becomes the loaded one
fromJSON(json, fractionDigits) ==
    /\ pc = "idle"
    /\ op' = "fromJSON"
    /\ arg' = [json |-> json, fractionDigits |-> fractionDigits]
    /\ ret' = NoValue
    /\ IF GetThrows(json)
       THEN /\ res' = "UnknownFunction"
            /\ UNCHANGED <<pc, layers, inputSignals, lossFunction, signals, rng, bw, steps>>
       ELSE IF ConstructorThrows(JSONLayerConfigs(json))
       THEN /\ res' = "EmptyNetwork"
            /\ UNCHANGED <<pc, layers, inputSignals, lossFunction, signals, rng, bw, steps>>
       ELSE \E net \in {NewNetwork(JSONLayerConfigs(json), LossFunctionCollectionGet(json.lossFunction),
                                   rng.seed, rng.calls)} :
                /\ res' = "ok"
                /\ steps' = steps + 1
                /\ layers' = LoadedLayers(net.layers, json, fractionDigits)
                /\ inputSignals' = net.inputSignals
                /\ lossFunction' = net.lossFunction
                /\ signals' = net.signals
                /\ rng' = [rng EXCEPT !.calls = net.calls]
                /\ UNCHANGED <<pc, bw>>

\* a model saved with some precision is loaded with the same precision
FromJSON ==
    /\ op = "toJSON"
    /\ steps < MaxSteps
    /\ \E json \in Documents(ret) : fromJSON(json, arg)
    /\ UNCHANGED trainer

\* one network, from its construction on
Next ==
    \/ Construct
    \/ AssignParameters
    \/ SetInputSignals
    \/ Forward
    \/ BackwardCall
    \/ backwardOutputDelta
    \/ backwardHiddenDelta
    \/ backwardUpdate
    \/ CalculateLoss
    \/ ToJSON

Spec == Init /\ [][Next]_vars

\* the same, the network being saved and loaded again at any time
NextLoad ==
    \/ Next
    \/ FromJSON

SpecLoad == Init /\ [][NextLoad]_vars

----------------------------------------------------------------------------
(* example/node: the training driver (NetworkTrainer, ImageProcessor, cli) *)

\* createExpectedOutput(result, numClasses = 10): the default number of classes
NumClasses == 10

\* ImageProcessor.createExpectedOutput(result, numClasses), for a class index below numClasses
createExpectedOutput(result, numClasses) ==
    [k \in 1..numClasses |-> IF k = result + 1 THEN Unit ELSE 0]

\* ImageProcessor.flattenImage(imageData): the rows concatenated
RECURSIVE flattenImage(_)
flattenImage(imageData) ==
    IF imageData = <<>> THEN <<>>
    ELSE flattenImage(SubSeq(imageData, 1, Len(imageData) - 1)) \o imageData[Len(imageData)]

\* validateOptions(options) in training mode with --layers: does it accept the layer sizes
\* and the activation-function names (<<>>: no --activations, or an empty one)
validateOptions(layersOption, activationsOption) ==
    /\ Len(layersOption) >= 2
    /\ \A i \in 1..Len(layersOption) : layersOption[i] > 0
    /\ activationsOption # <<>> =>
          /\ Len(activationsOption) = Len(layersOption)
          /\ \A i \in 1..Len(activationsOption) :
                activationsOption[i] \in {"ReLU", "LeakyReLU", "Sigmoid", "Softmax"}

\* NetworkTrainer.createNetwork(layersConfig, activationsConfig): the layer configurations
createNetwork(layersOption, activationsOption) ==
    LET activationFunctionNames ==
            IF activationsOption # <<>> THEN activationsOption
            ELSE [index \in 1..Len(layersOption) |->
                     IF index < Len(layersOption) THEN "ReLU" ELSE "Softmax"]
    IN  [index \in 1..Len(layersOption) |->
            [neurons |-> layersOption[index],
             activationFunction |-> ActivationFunctionCollectionGet(activationFunctionNames[index])]]

\* values of --layers: a single layer, a layer of no neuron, the lists of 2 to MaxLayers
\* layers of MaxNeurons neurons in all, and lists whose last layer has one neuron per class
TrainerLayerOptions ==
    {<<2>>, <<0, 2>>, <<1, NumClasses>>, <<2, NumClasses>>, <<1, 1, NumClasses>>} \cup
    UNION {{sz \in [1..n -> 1..MaxNeurons] : SumSeq(sz) <= MaxNeurons} : n \in 2..MaxLayers}

\* values of --activations for n layers: none, Sigmoid everywhere, one name too many
TrainerActivationOptions(n) ==
    {<<>>, [i \in 1..n |-> "Sigmoid"], [i \in 1..(n + 1) |-> "ReLU"]}

\* images for a network of n inputs: one row of n pixels in [0, 1], and two such rows
TrainerImages(n) ==
    LET row == [k \in 1..n |-> (35 * k) % (Unit + 1)]
    IN  {<<row>>, <<row, row>>}

\* epochs of a training run
MaxEpochs == 2
\* samples of the training data
MaxSamples == 2

\* the shuffled training data for a network of n inputs, of at most MaxSamples samples (result,
\* imageData): images that fit the network with the classes 0, 1, ... in turn; the same with
\* the last class for every sample; and the first, its last image being one that does not fit
TrainerData(n) ==
    LET fits == CHOOSE imageData \in TrainerImages(n) : Len(flattenImage(imageData)) = n
        other == CHOOSE imageData \in TrainerImages(n) : Len(flattenImage(imageData)) # n
    IN  UNION {{[k \in 1..s |-> [result |-> (k - 1) % NumClasses, imageData |-> fits]],
                [k \in 1..s |-> [result |-> NumClasses - 1, imageData |-> fits]],
                [k \in 1..s |-> [result |-> (k - 1) % NumClasses,
                                 imageData |-> IF k = s THEN other ELSE fits]]}
               : s \in 0..MaxSamples}

\* train: "Load or create model", with --layers, and "Prepare training data"; the loop
\* variables epoch and i start at 0
trainCreateNetwork ==
    /\ pc = "new"
    /\ \E layersOption \in TrainerLayerOptions :
          \E activationsOption \in TrainerActivationOptions(Len(layersOption)) :
              /\ validateOptions(layersOption, activationsOption)
              /\ Constructor(createNetwork(layersOption, activationsOption), NoValue)
              /\ \E epochs \in 1..MaxEpochs, learningRate \in LearningRates,
                    data \in TrainerData(layersOption[1]) :
                     trainer' = [epochs |-> epochs, learningRate |-> learningRate,
                                 data |-> data, epoch |-> 0, i |-> 0]

\* train is between two statements of its loops: the network is created, or the chain of
\* calls for a sample has returned, or the model is saved
trainReady ==
    /\ pc = "idle"
    /\ \/ op = "constructor" /\ res = "ok"
       \/ op = "backward" /\ res = "ok"
       \/ op = "toJSON"

\* train: network.setInputSignals(input), for the next sample of the epoch; trainer.i counts
\* the samples of the epoch taken so far
trainSetInputSignals ==
    /\ trainReady
    /\ trainer.epoch < trainer.epochs
    /\ trainer.i < Len(trainer.data)
    /\ setInputSignals(flattenImage(trainer.data[trainer.i + 1].imageData))
    /\ trainer' = [trainer EXCEPT !.i = @ + 1]

\* train: .forward()
trainForward ==
    /\ op = "setInputSignals" /\ res = "ok"
    /\ forward

\* train: .backward(expectedOutput, learningRate), for the sample taken
trainBackward ==
    /\ pc = "idle"
    /\ op = "forward"
    /\ backwardCall(createExpectedOutput(trainer.data[trainer.i].result, NumClasses),
                    trainer.learningRate)
    /\ UNCHANGED trainer

\* the saving, after every sample
trainSaveModelEverySample ==
    /\ trainReady
    /\ trainer.epoch < trainer.epochs
    /\ op = "backward" \/ trainer.i = Len(trainer.data)
    /\ toJSON(6)
    /\ trainer' = IF trainer.i = Len(trainer.data)
                  THEN [trainer EXCEPT !.epoch = @ + 1, !.i = 0]
                  ELSE trainer

\* train: this.saveModel(network, options.model), after the last sample of an epoch; the next
\* epoch begins
trainSaveModel ==
    /\ trainReady
    /\ trainer.epoch < trainer.epochs
    /\ trainer.i = Len(trainer.data)
    /\ toJSON(6)
    /\ trainer' = [trainer EXCEPT !.epoch = @ + 1, !.i = 0]

\* NetworkTrainer.train(options), options.layers given
NextTrain ==
    \/ trainCreateNetwork
    \/ trainSetInputSignals
    \/ trainForward
    \/ trainBackward
    \/ backwardOutputDelta
    \/ backwardHiddenDelta
    \/ backwardUpdate
    \/ trainSaveModel

SpecTrain == Init /\ [][NextTrain]_vars

----------------------------------------------------------------------------
(* functions/activation.ts called on its own, as its tests do *)

\* the numbers of the vectors: -1.5, 0, 0.75
ActivationValues == {-150, 0, 75}

\* vectors of large magnitude: 100, 101, 102, and vectors holding 0 and -1000
ActivationLargeInputs == {<<10000, 10100, 10200>>, <<0, -100000>>, <<-100000, 0, 0>>}

\* the vectors of at most MaxNeurons of these numbers, the empty one included, and the large ones
ActivationInputs ==
    UNION {[1..n -> ActivationValues] : n \in 0..MaxNeurons} \cup ActivationLargeInputs

\* f(values) and f.derivative(values)
applyActivation(f, values) ==
    /\ pc = "new"
    /\ op' = "activation"
    /\ arg' = [activationFunction |-> f, values |-> values]
    /\ res' = "ok"
    /\ ret' = [values |-> Activation(f, values), derivative |-> ActivationDerivative(f, values)]
    /\ UNCHANGED <<pc, layers, inputSignals, lossFunction, signals, rng, bw, steps>>

ApplyActivation ==
    /\ \E f \in ActivationFunctionNames, values \in ActivationInputs : applyActivation(f, values)
    /\ UNCHANGED trainer

SpecActivation == Init /\ [][ApplyActivation]_vars

\* the activation functions called on their own, then a network constructed and used
NextSoftmax ==
    \/ ApplyActivation
    \/ Next

SpecSoftmax == Init /\ [][NextSoftmax]_vars

----------------------------------------------------------------------------
(* functions/loss.ts called on its own *)

\* the numbers of the predicted vectors: 1, 2, 3
LossPredictedValues == {100, 200, 300}

\* the expected vectors for n predictions: 1 everywhere, 1 for the first class only, and 1
\* everywhere with an element more than there are predictions
LossExpected(n) == {[k \in 1..n |-> Unit], OneHot(n, 1), [k \in 1..(n + 1) |-> Unit]}

\* the pairs (predicted, expected), predicted of at most MaxNeurons elements
LossInputs ==
    UNION {[1..n -> LossPredictedValues] \X LossExpected(n) : n \in 0..MaxNeurons}

\* f(predicted, expected) and f.derivative(predicted, expected)
applyLoss(f, predicted, expected) ==
    /\ pc = "new"
    /\ op' = "loss"
    /\ arg' = [lossFunction |-> f, predicted |-> predicted, expected |-> expected]
    /\ res' = "ok"
    /\ ret' = [value |-> Loss(f, predicted, expected),
               derivative |-> LossDerivative(f, predicted, expected)]
    /\ UNCHANGED <<pc, layers, inputSignals, lossFunction, signals, rng, bw, steps>>

ApplyLoss ==
    /\ \E f \in LossFunctionNames, pe \in LossInputs : applyLoss(f, pe[1], pe[2])
    /\ UNCHANGED trainer

SpecLoss == Init /\ [][ApplyLoss]_vars

----------------------------------------------------------------------------
(* NetworkTrainer.shuffleData called on its own *)

\* elements of an array to shuffle
MaxShuffle == 3

\* the values an element of the array takes; equal elements occur
ShuffleElements == 1..3

\* the arrays shuffled
ShuffleArrays == UNION {[1..n -> ShuffleElements] : n \in 0..MaxShuffle}

\* values of Math.random(), in [0, 1): for every i up to 4 they give every index 0..i
ShuffleRandoms == {0, 25, 50, 75, 99}

\* randomInt(min, max), Math.random() having returned random
randomInt(min, max, random) == ((random * (max - min + 1)) \div Unit) + min

\* the assignment of one element over the other
swapOverwriting(shuffled, i, randomIndex) ==
    [shuffled EXCEPT ![i + 1] = shuffled[randomIndex + 1]]

\* [shuffled[i], shuffled[randomIndex]] = [shuffled[randomIndex], shuffled[i]], indices from 0
swap(shuffled, i, randomIndex) ==
    [index \in 1..Len(shuffled) |->
        IF index = i + 1 THEN shuffled[randomIndex + 1]
        ELSE IF index = randomIndex + 1 THEN shuffled[i + 1]
        ELSE shuffled[index]]

\* shuffleData(data), up to the test of its loop: shuffled = [...data], i = shuffled.length - 1.
\* The frame of the call is kept in ret: the caller's array, the copy and the loop variable.
shuffleCall(data) ==
    /\ pc = "new"
    /\ op = "shuffleData" => res = "ok"
    /\ op' = "shuffleData"
    /\ arg' = data
    /\ res' = IF Len(data) - 1 > 0 THEN "running" ELSE "ok"
    /\ ret' = [data |-> data, shuffled |-> data, i |-> Len(data) - 1, randomIndex |-> 0]
    /\ UNCHANGED <<pc, layers, inputSignals, lossFunction, signals, rng, bw, steps>>

ShuffleCall ==
    /\ \E data \in ShuffleArrays : shuffleCall(data)
    /\ UNCHANGED trainer

\* one turn of the loop of shuffleData, and the return when i > 0 fails
shuffleStep ==
    /\ op = "shuffleData"
    /\ res = "running"
    /\ \E random \in ShuffleRandoms :
          LET randomIndex == randomInt(0, ret.i, random)
          IN  /\ ret' = [ret EXCEPT !.shuffled = swap(ret.shuffled, ret.i, randomIndex),
                                    !.i = ret.i - 1,
                                    !.randomIndex = randomIndex]
              /\ res' = IF ret.i - 1 > 0 THEN "running" ELSE "ok"
    /\ UNCHANGED <<trainer, pc, layers, inputSignals, lossFunction, signals, rng, bw, op, arg,
                   steps>>

NextShuffle ==
    \/ ShuffleCall
    \/ shuffleStep

SpecShuffle == Init /\ [][NextShuffle]_vars

----------------------------------------------------------------------------
(* Views of the state used by the properties *)

\* the value of the k-th Signal feeding layer i: an input Signal for the first layer, the output
\* Signal of neuron k of the layer before for every other layer
UpstreamId(i, k) == IF i = 1 THEN inputSignals[k] ELSE layers[i - 1].neurons[k].output

FanIn(i) == IF i = 1 THEN Len(inputSignals) ELSE Len(layers[i - 1].neurons)

\* everything of the network but the bookkeeping of the calls
Network == <<layers, inputSignals, lossFunction, signals>>

\* the pre-activations of a layer, in the order of its neurons
PreActivations(layer) == [j \in 1..Len(layer.neurons) |-> layer.neurons[j].preActivation]

\* backward's two delta passes done in one go on the layers ls: rows layerIndex, ..., 1 of
\* deltaMatrix filled in, the rows above them being there already
RECURSIVE DeltasFrom(_, _, _)
DeltasFrom(ls, layerIndex, deltaMatrix) ==
    IF layerIndex = 0 THEN deltaMatrix
    ELSE DeltasFrom(ls, layerIndex - 1,
            [deltaMatrix EXCEPT ![layerIndex] =
                HiddenDeltas(ls[layerIndex], ls[layerIndex + 1], deltaMatrix[layerIndex + 1])])

\* the whole deltaMatrix of backward(expectedOutput) on the layers ls and the Signal values sigs
ReferenceDeltas(ls, lossFn, sigs, expectedOutput) ==
    DeltasFrom(ls, Len(ls) - 1,
        [ZeroDeltaMatrix(ls) EXCEPT
            ![Len(ls)] = OutputDeltas(ls[Len(ls)], lossFn, sigs, expectedOutput)])

----------------------------------------------------------------------------
(* Properties *)

\* C1: once constructed, and whatever was called since, there are as many input Signals as
\* neurons in the first layer; every neuron of the first layer has one connection per input
\* Signal, the k-th referencing input Signal k itself; every neuron of a later layer has one
\* connection per neuron of the layer before, the k-th referencing the output Signal of its
\* k-th neuron; and these Signals are pairwise different objects.
C1_FullyConnected ==
    pc # "new" =>
        /\ Len(layers) >= 1
        /\ Len(inputSignals) = Len(layers[1].neurons)
        /\ \A i \in 1..Len(layers) : \A j \in 1..Len(layers[i].neurons) :
              /\ Len(layers[i].neurons[j].inputs) = FanIn(i)
              /\ \A k \in 1..FanIn(i) : layers[i].neurons[j].inputs[k].signal = UpstreamId(i, k)
        /\ \A i1, i2 \in 1..Len(layers) :
              \A j1 \in 1..Len(layers[i1].neurons), j2 \in 1..Len(layers[i2].neurons) :
                  (layers[i1].neurons[j1].output = layers[i2].neurons[j2].output)
                      => (i1 = i2 /\ j1 = j2)
        /\ \A k1, k2 \in 1..Len(inputSignals) : (inputSignals[k1] = inputSignals[k2]) => k1 = k2
        /\ \A k \in 1..Len(inputSignals) : \A i \in 1..Len(layers) :
              \A j \in 1..Len(layers[i].neurons) : inputSignals[k] # layers[i].neurons[j].output

\* a network of several layers, one of them of several neurons, after a complete backward call
C1_Witness ==
    /\ op = "backward" /\ res = "ok"
    /\ Len(layers) >= 2
    /\ Len(layers[1].neurons) >= 2

\* C2: the constructor stores the loss function it is given, whatever the last layer's
\* activation function; given none, it stores CrossEntropy if the last layer's activation
\* function is Softmax and MSE otherwise; and no later call changes the stored loss function.
C2_LossResolution ==
    [][/\ (op' = "constructor" /\ res' = "ok") =>
            LET given == arg'.lossFunction
                last == arg'.layerConfigs[Len(arg'.layerConfigs)].activationFunction
            IN  lossFunction' = IF given # NoValue THEN given
                                ELSE IF last = "Softmax" THEN "CrossEntropy" ELSE "MSE"
       /\ pc # "new" => lossFunction' = lossFunction]_vars

\* a network built with an explicit MSE over a Softmax last layer, after a backward call
C2_Witness ==
    /\ op = "backward" /\ res = "ok"
    /\ lastLayer.activationFunction = "Softmax"
    /\ lossFunction = "MSE"

C4_SetInputSignals ==
    [][(op' = "setInputSignals" /\ pc = "idle") =>
          IF Len(arg') # Len(inputSignals)
          THEN /\ res' = "ShapeMismatch"
               /\ Network' = Network /\ rng' = rng /\ pc' = pc
          ELSE /\ res' = "ok"
               /\ \A i \in 1..Len(inputSignals) : signals'[inputSignals[i]] = arg'[i]]_vars

\* a too short vector was rejected, on a network whose Signals hold values of earlier calls
C4_Witness ==
    /\ op = "setInputSignals" /\ res = "ShapeMismatch"
    /\ Len(arg) < Len(inputSignals)
    /\ \E k \in 1..Len(inputSignals) : signals[inputSignals[k]] # 0
    /\ \E j \in 1..Len(lastLayer.neurons) : signals[lastLayer.neurons[j].output] # 0

\* C5: backward and calculateLoss with an expected vector of another length than the last
\* layer fail with ShapeMismatch, and then no weight, bias, Signal value or pre-activation (nor
\* anything else of the network) differs from before the call.
C5_ExpectedShape ==
    [][(op' \in {"backward", "calculateLoss"} /\ pc = "idle") =>
          LET expected == IF op' = "backward" THEN arg'.expectedOutput ELSE arg'
          IN  Len(expected) # Len(lastLayer.neurons) =>
                  /\ res' = "ShapeMismatch"
                  /\ Network' = Network /\ rng' = rng /\ pc' = pc /\ bw' = bw]_vars

\* backward was rejected on a network that holds the values of a forward pass
C5_Witness ==
    /\ op = "backward" /\ res = "ShapeMismatch"
    /\ Len(arg.expectedOutput) # Len(lastLayer.neurons)
    /\ \E j \in 1..Len(lastLayer.neurons) : lastLayer.neurons[j].preActivation # 0

\* C6: no operation that receives a vector uses a prefix of it or fills in what is missing:
\* setInputSignals with another number of values than input Signals, backward and
\* calculateLoss with another number of expected outputs than neurons in the last layer, and
\* fromJSON with a document in which some neuron's weights list has another length than the
\* neuron's fan-in (the number of neurons of the layer stored before it, or of its own layer
\* for the first one) all fail.
C6_NoSilentTruncation ==
    [][/\ (op' = "setInputSignals" /\ pc = "idle" /\ Len(arg') # Len(inputSignals))
              => res' = "ShapeMismatch"
       /\ (op' = "backward" /\ pc = "idle" /\ Len(arg'.expectedOutput) # Len(lastLayer.neurons))
              => res' = "ShapeMismatch"
       /\ (op' = "calculateLoss" /\ pc = "idle" /\ Len(arg') # Len(lastLayer.neurons))
              => res' = "ShapeMismatch"
       /\ (op' = "fromJSON" /\ op = "toJSON") =>
              LET stored == arg'.json.layers
              IN  (\E i \in 1..Len(stored) : \E j \in 1..Len(stored[i].neurons) :
                      Len(stored[i].neurons[j].weights) #
                          Len(stored[IF i = 1 THEN 1 ELSE i - 1].neurons))
                  => res' # "ok"]_vars

\* C7: forward returns the network and changes no bias, weight or input Signal value; after
\* it every neuron's pre-activation is its bias plus the sum of weight * value over its
\* connections, the values being the input Signals' for the first layer and the outputs the
\* same call wrote for the layer before otherwise; every layer's outputs are its activation
\* function applied once to the vector of its pre-activations; and a ReLU layer whose weights
\* are all 1 and biases all 0, fed with non-negative values, outputs their sum in every neuron.
C7_Forward ==
    [][(op' = "forward" /\ pc = "idle" /\ steps' = steps + 1) =>
          /\ ret' = This /\ res' = "ok"
          /\ \A k \in 1..Len(inputSignals) : signals'[inputSignals[k]] = signals[inputSignals[k]]
          /\ Len(layers') = Len(layers)
          /\ \A i \in 1..Len(layers) :
                LET layer == layers'[i]
                    upstream == [k \in 1..FanIn(i) |-> signals'[UpstreamId(i, k)]]
                IN  /\ layer.activationFunction = layers[i].activationFunction
                    /\ Len(layer.neurons) = Len(layers[i].neurons)
                    /\ \A j \in 1..Len(layer.neurons) :
                          /\ layer.neurons[j].bias = layers[i].neurons[j].bias
                          /\ layer.neurons[j].inputs = layers[i].neurons[j].inputs
                          /\ layer.neurons[j].output = layers[i].neurons[j].output
                          /\ layer.neurons[j].preActivation =
                                layer.neurons[j].bias +
                                SumSeq([k \in 1..FanIn(i) |->
                                    Mul(layer.neurons[j].inputs[k].weight, upstream[k])])
                    /\ [j \in 1..Len(layer.neurons) |-> signals'[layer.neurons[j].output]]
                          = Activation(layer.activationFunction, PreActivations(layer))
                    /\ ( /\ layer.activationFunction = "ReLU"
                         /\ \A k \in 1..FanIn(i) : upstream[k] >= 0
                         /\ \A j \in 1..Len(layer.neurons) :
                               /\ layer.neurons[j].bias = 0
                               /\ \A k \in 1..FanIn(i) : layer.neurons[j].inputs[k].weight = Unit )
                       => \A j \in 1..Len(layer.neurons) :
                             signals'[layer.neurons[j].output] = SumSeq(upstream)]_vars

\* after forward on given input values: a ReLU layer that is not the first one, with every
\* weight 1 and every bias 0, was fed non-negative values that are not all 0
C7_Witness ==
    /\ op = "forward" /\ pc = "idle"
    /\ \E k \in 1..Len(inputSignals) : signals[inputSignals[k]] # 0
    /\ \E i \in 2..Len(layers) :
          /\ layers[i].activationFunction = "ReLU"
          /\ \A k \in 1..FanIn(i) : signals[UpstreamId(i, k)] >= 0
          /\ \E k \in 1..FanIn(i) : signals[UpstreamId(i, k)] > 0
          /\ \A j \in 1..Len(layers[i].neurons) :
                /\ layers[i].neurons[j].bias = 0
                /\ \A k \in 1..FanIn(i) : layers[i].neurons[j].inputs[k].weight = Unit
                /\ signals[layers[i].neurons[j].output] > 0

\* C8: once backward has computed the deltas of the output layer, the delta of its neuron n is
\* element n of lossFunction.derivative(outputValues, expectedOutput) when the layer's
\* activation function is Softmax, whatever the loss function, and that element times element n
\* of the activation function's derivative at the layer's pre-activations otherwise.
C8_OutputDelta ==
    pc \in {"hiddenDelta", "update"} =>
        LET outputs == [n \in 1..Len(lastLayer.neurons) |-> signals[lastLayer.neurons[n].output]]
            lossGradient == LossDerivative(lossFunction, outputs, bw.expectedOutput)
            slope == ActivationDerivative(lastLayer.activationFunction, PreActivations(lastLayer))
        IN  /\ Len(bw.deltaMatrix) = Len(layers)
            /\ Len(bw.deltaMatrix[Len(layers)]) = Len(lastLayer.neurons)
            /\ \A n \in 1..Len(lastLayer.neurons) :
                  bw.deltaMatrix[Len(layers)][n] =
                      IF lastLayer.activationFunction = "Softmax"
                      THEN lossGradient[n]
                      ELSE Mul(lossGradient[n], slope[n])

\* the output deltas of a Softmax layer under MSE, after a forward pass, are not all 0
C8_Witness ==
    /\ pc \in {"hiddenDelta", "update"}
    /\ lastLayer.activationFunction = "Softmax"
    /\ lossFunction = "MSE"
    /\ Len(lastLayer.neurons) >= 2
    /\ \E n \in 1..Len(lastLayer.neurons) : lastLayer.neurons[n].preActivation # 0
    /\ \E n \in 1..Len(lastLayer.neurons) : bw.deltaMatrix[Len(layers)][n] # 0

\* C9: backward computes the deltas of the layers before the last from the last but one down
\* to the first, one layer per turn and after the layer that follows it: the turn for layer L
\* finds the deltas of L and of every layer before it still 0, leaves every other row of the
\* matrix and all weights as they are, and sets delta j of L to element j of the activation
\* derivative of L at its pre-activations times the sum, over the neurons k of layer L + 1, of
\* the weight of k's j-th connection times delta k of L + 1; no weight changes between the call
\* and the last turn, so these weights are those of before the call.
C9_HiddenDelta ==
    [][/\ pc = "outputDelta" =>
            /\ layers' = layers
            /\ bw'.layerIndex = Len(layers) - 1
            /\ pc' = IF Len(layers) = 1 THEN "update" ELSE "hiddenDelta"
            /\ \A i \in 1..(Len(layers) - 1) : bw'.deltaMatrix[i] = bw.deltaMatrix[i]
       /\ pc = "hiddenDelta" =>
            LET L == bw.layerIndex
                slope == ActivationDerivative(layers[L].activationFunction,
                                              PreActivations(layers[L]))
            IN  /\ L \in 1..(Len(layers) - 1)
                /\ \A i \in 1..L : \A j \in 1..Len(layers[i].neurons) : bw.deltaMatrix[i][j] = 0
                /\ layers' = layers
                /\ bw'.layerIndex = L - 1
                /\ pc' = IF L = 1 THEN "update" ELSE "hiddenDelta"
                /\ \A i \in 1..Len(layers) : i # L => bw'.deltaMatrix[i] = bw.deltaMatrix[i]
                /\ Len(bw'.deltaMatrix[L]) = Len(layers[L].neurons)
                /\ \A j \in 1..Len(layers[L].neurons) :
                      bw'.deltaMatrix[L][j] =
                          Mul(slope[j],
                              SumSeq([k \in 1..Len(layers[L + 1].neurons) |->
                                  Mul(layers[L + 1].neurons[k].inputs[j].weight,
                                      bw.deltaMatrix[L + 1][k])]))]_vars

\* in a network of three layers, the deltas of the second layer are computed and not all 0,
\* those of the first are next
C9_Witness ==
    /\ pc = "hiddenDelta"
    /\ Len(layers) = 3
    /\ bw.layerIndex = 1
    /\ \E j \in 1..Len(layers[2].neurons) : bw.deltaMatrix[2][j] # 0
    /\ \E j \in 1..Len(layers[1].neurons) : layers[1].neurons[j].preActivation # 0

\* C10: backward writes no weight, bias or Signal value while it computes deltas; its last
\* step, which finds the deltas of all layers computed from the weights of before the call,
\* replaces every weight by weight - learningRate * delta of the consuming neuron * value of the
\* connection's Signal and every bias by bias - learningRate * delta of the neuron, and changes
\* no Signal value, pre-activation or connection.
C10_UpdateAfterDeltas ==
    [][/\ (pc \in {"outputDelta", "hiddenDelta"} \/ (pc = "idle" /\ op' = "backward"))
            => layers' = layers /\ signals' = signals
       /\ pc = "update" =>
            /\ bw.deltaMatrix =
                  ReferenceDeltas(layers, lossFunction, signals, bw.expectedOutput)
            /\ bw.learningRate = arg.learningRate
            /\ signals' = signals
            /\ pc' = "idle" /\ res' = "ok" /\ ret' = This
            /\ Len(layers') = Len(layers)
            /\ \A i \in 1..Len(layers) :
                  /\ layers'[i].activationFunction = layers[i].activationFunction
                  /\ Len(layers'[i].neurons) = Len(layers[i].neurons)
                  /\ \A j \in 1..Len(layers[i].neurons) :
                        LET old == layers[i].neurons[j]
                            new == layers'[i].neurons[j]
                            delta == bw.deltaMatrix[i][j]
                        IN  /\ new.bias = old.bias - Mul(arg.learningRate, delta)
                            /\ new.preActivation = old.preActivation
                            /\ new.output = old.output
                            /\ Len(new.inputs) = Len(old.inputs)
                            /\ \A k \in 1..Len(old.inputs) :
                                  /\ new.inputs[k].signal = old.inputs[k].signal
                                  /\ new.inputs[k].weight =
                                        old.inputs[k].weight -
                                        Mul(arg.learningRate,
                                            Mul(delta, signals[UpstreamId(i, k)]))]_vars

\* all deltas of a network of several layers are computed, and the update about to be made
\* changes a weight of the first layer
C10_Witness ==
    /\ pc = "update"
    /\ Len(layers) >= 2
    /\ \E j \in 1..Len(layers[1].neurons) : \E k \in 1..Len(inputSignals) :
          Mul(bw.learningRate, Mul(bw.deltaMatrix[1][j], signals[inputSignals[k]])) # 0

\* C11: calculateLoss with an expected vector as long as the last layer returns the network's
\* loss function (MSE or CrossEntropy) applied to the current output values of the last layer
\* and the expected vector, and changes no weight, bias, Signal value or pre-activation, nor
\* anything else a later forward, backward or toJSON reads (loss function, random source,
\* position of the network), however often it is called.
C11_CalculateLossPure ==
    [][(op' = "calculateLoss" /\ pc = "idle" /\ Len(arg') = Len(lastLayer.neurons)) =>
          LET predicted == [n \in 1..Len(lastLayer.neurons) |->
                               signals[lastLayer.neurons[n].output]]
          IN  /\ res' = "ok"
              /\ ret' = IF lossFunction = "MSE" THEN MSE(predicted, arg')
                        ELSE CrossEntropy(predicted, arg')
              /\ layers' = layers /\ signals' = signals
              /\ inputSignals' = inputSignals /\ lossFunction' = lossFunction
              /\ rng' = rng /\ pc' = pc /\ bw' = bw /\ steps' = steps]_vars

\* calculateLoss returned a loss that is not 0 on a network of several layers whose inputs were
\* set after its last forward pass, so that a forward pass now would change its outputs
C11_Witness ==
    /\ op = "calculateLoss" /\ res = "ok"
    /\ lossFunction = "MSE" /\ ret # 0
    /\ Len(layers) >= 2
    /\ \E n \in 1..Len(lastLayer.neurons) : lastLayer.neurons[n].preActivation # 0
    /\ ForwardLayers(layers, 1, signals).signals # signals

\* C12: loading, with precision p, the document that toJSON(p) returned for a network gives a
\* network with as many layers, neurons per layer and connections per neuron, in which every
\* bias and every weight is the original value rounded to p decimal digits: 10^p times the new
\* value is the integer nearest to 10^p times the original (halves upwards).  A value that has
\* no more than p decimal digits is restored exactly.
C12_RoundTripParameters ==
    [][(op = "toJSON" /\ op' = "fromJSON" /\ arg'.json = ret /\ arg'.fractionDigits = arg) =>
          LET p == arg
              IsRounded(new, old) ==
                  /\ (new * Pow10(p)) % Unit = 0
                  /\ LET m == (new * Pow10(p)) \div Unit
                     IN  /\ 2 * Unit * m <= 2 * old * Pow10(p) + Unit
                         /\ 2 * old * Pow10(p) + Unit < 2 * Unit * (m + 1)
                  /\ ((old * Pow10(p)) % Unit = 0) => new = old
          IN  /\ res' = "ok"
              /\ Len(layers') = Len(layers)
              /\ \A i \in 1..Len(layers) :
                    /\ Len(layers'[i].neurons) = Len(layers[i].neurons)
                    /\ \A j \in 1..Len(layers[i].neurons) :
                          /\ IsRounded(layers'[i].neurons[j].bias, layers[i].neurons[j].bias)
                          /\ Len(layers'[i].neurons[j].inputs) = Len(layers[i].neurons[j].inputs)
                          /\ \A k \in 1..Len(layers[i].neurons[j].inputs) :
                                IsRounded(layers'[i].neurons[j].inputs[k].weight,
                                          layers[i].neurons[j].inputs[k].weight)]_vars

\* a network of several layers was loaded with one decimal digit from its own document, which
\* holds a weight that is neither 0 nor a multiple of 10
C12_Witness ==
    /\ op = "fromJSON" /\ res = "ok"
    /\ arg.fractionDigits = 1
    /\ Len(layers) >= 2
    /\ arg.json = NetworkJSON(layers, lossFunction, 1)
    /\ \E i \in 1..Len(layers) : \E j \in 1..Len(layers[i].neurons) :
          \E k \in 1..Len(layers[i].neurons[j].inputs) :
              arg.json.layers[i].neurons[j].weights[k] % 10 # 0

\* C13: toJSON(p) returns one layer entry per layer, in order, each with the name of the layer's
\* activation function and one neuron entry per neuron, in order; a neuron entry holds the
\* integer nearest to 10^p * bias (halves upwards) and, per connection in order, the integer
\* nearest to 10^p * weight, so as many weights as the neuron's fan-in; the document holds the
\* name of the loss function; and toJSON changes nothing in the network.
C13_ToJSON ==
    [][(op' = "toJSON" /\ pc = "idle") =>
          LET p == arg'
              json == ret'
              IsNearest(m, v) ==
                  /\ m \in Int
                  /\ 2 * Unit * m <= 2 * v * Pow10(p) + Unit
                  /\ 2 * v * Pow10(p) + Unit < 2 * Unit * (m + 1)
          IN  /\ res' = "ok"
              /\ json.lossFunction = lossFunction
              /\ Len(json.layers) = Len(layers)
              /\ \A i \in 1..Len(layers) :
                    /\ json.layers[i].activationFunction = layers[i].activationFunction
                    /\ Len(json.layers[i].neurons) = Len(layers[i].neurons)
                    /\ \A j \in 1..Len(layers[i].neurons) :
                          LET stored == json.layers[i].neurons[j]
                              neuron == layers[i].neurons[j]
                          IN  /\ IsNearest(stored.bias, neuron.bias)
                              /\ Len(stored.weights) = FanIn(i)
                              /\ \A k \in 1..FanIn(i) :
                                    IsNearest(stored.weights[k], neuron.inputs[k].weight)
              /\ Network' = Network /\ rng' = rng /\ pc' = pc /\ bw' = bw /\ steps' = steps]_vars

\* toJSON(1) was called on a network of several layers that holds a negative weight and a
\* weight whose second decimal digit makes it round upwards
C13_Witness ==
    /\ op = "toJSON" /\ arg = 1
    /\ Len(layers) >= 2
    /\ \E i \in 1..Len(layers) : \E j \in 1..Len(layers[i].neurons) :
          \E k \in 1..Len(layers[i].neurons[j].inputs) :
              layers[i].neurons[j].inputs[k].weight < 0
    /\ \E i \in 1..Len(layers) : \E j \in 1..Len(layers[i].neurons) :
          \E k \in 1..Len(layers[i].neurons[j].inputs) :
              (layers[i].neurons[j].inputs[k].weight % 10) >= 5

\* C14: loading the document that toJSON returned for a network succeeds, and the network
\* loaded has, layer by layer, the activation function of the original and, as its loss
\* function, the loss function of the original, also when that one was given to the
\* constructor and is not the one the last layer's activation function would select.
C14_RoundTripArchitecture ==
    [][(op = "toJSON" /\ op' = "fromJSON" /\ arg'.json = ret) =>
          /\ res' = "ok"
          /\ lossFunction' = lossFunction
          /\ Len(layers') = Len(layers)
          /\ \A i \in 1..Len(layers) :
                /\ layers'[i].activationFunction = layers[i].activationFunction
                /\ Len(layers'[i].neurons) = Len(layers[i].neurons)
          /\ Len(inputSignals') = Len(inputSignals)]_vars

\* a network of several layers with a Softmax last layer and MSE, which only an explicit
\* choice gives, was loaded from its own document
C14_Witness ==
    /\ op = "fromJSON" /\ res = "ok"
    /\ Len(layers) >= 2
    /\ lastLayer.activationFunction = "Softmax"
    /\ lossFunction = "MSE"
    /\ arg.json = NetworkJSON(layers, lossFunction, arg.fractionDigits)

\* C15: in the network fromJSON returns for a well-formed document (every weights list as long
\* as the neuron's fan-in), every bias is the stored bias divided by 10^p and every weight the
\* stored weight divided by 10^p, whatever the constructor, run first, drew for them.
C15_LoadOverwrites ==
    [][(op' = "fromJSON" /\ pc = "idle" /\ res' = "ok") =>
          LET json == arg'.json
              p == arg'.fractionDigits
              WellFormed ==
                  \A i \in 1..Len(json.layers) : \A j \in 1..Len(json.layers[i].neurons) :
                      Len(json.layers[i].neurons[j].weights) =
                          Len(json.layers[IF i = 1 THEN 1 ELSE i - 1].neurons)
          IN  WellFormed =>
                  /\ Len(layers') = Len(json.layers)
                  /\ \A i \in 1..Len(json.layers) :
                        /\ Len(layers'[i].neurons) = Len(json.layers[i].neurons)
                        /\ \A j \in 1..Len(json.layers[i].neurons) :
                              LET stored == json.layers[i].neurons[j]
                                  neuron == layers'[i].neurons[j]
                              IN  /\ neuron.bias * Pow10(p) = stored.bias * Unit
                                  /\ Len(neuron.inputs) = Len(stored.weights)
                                  /\ \A k \in 1..Len(stored.weights) :
                                        neuron.inputs[k].weight * Pow10(p)
                                            = stored.weights[k] * Unit]_vars

\* a network of several layers was loaded from a well-formed document in which every bias is 0
\* and every weight 1
C15_Witness ==
    /\ op = "fromJSON" /\ res = "ok"
    /\ Len(layers) >= 2
    /\ arg.json = NetworkJSON(layers, lossFunction, arg.fractionDigits)
    /\ \A i \in 1..Len(layers) : \A j \in 1..Len(layers[i].neurons) :
          /\ arg.json.layers[i].neurons[j].bias = 0
          /\ layers[i].neurons[j].bias = 0
          /\ \A k \in 1..Len(layers[i].neurons[j].inputs) :
                layers[i].neurons[j].inputs[k].weight = Unit

\* C16: ActivationFunctionCollection.get fails with UnknownFunction for every name that is not
\* ReLU, LeakyReLU, Sigmoid or Softmax and returns, for each of these, the function with that
\* functionName; LossFunctionCollection.get does the same with MSE and CrossEntropy; and
\* fromJSON fails with UnknownFunction, returning no network and building none, exactly when
\* some layer's activation-function name or the loss-function name of the document is not
\* recognised.
C16_NameLookup ==
    [][/\ \A name \in LookupNames :
            /\ ActivationFunctionCollectionGet(name) =
                  IF name \in {"ReLU", "LeakyReLU", "Sigmoid", "Softmax"}
                  THEN name ELSE "UnknownFunction"
            /\ LossFunctionCollectionGet(name) =
                  IF name \in {"MSE", "CrossEntropy"} THEN name ELSE "UnknownFunction"
       /\ (op' = "fromJSON" /\ pc = "idle") =>
            LET json == arg'.json
                unrecognised ==
                    \/ \E i \in 1..Len(json.layers) :
                          json.layers[i].activationFunction
                              \notin {"ReLU", "LeakyReLU", "Sigmoid", "Softmax"}
                    \/ json.lossFunction \notin {"MSE", "CrossEntropy"}
            IN  /\ (res' = "UnknownFunction") <=> unrecognised
                /\ unrecognised =>
                      /\ ret' = NoValue
                      /\ Network' = Network /\ rng' = rng /\ steps' = steps /\ pc' = pc
                /\ ~unrecognised =>
                      /\ res' = "ok"
                      /\ lossFunction' = json.lossFunction
                      /\ \A i \in 1..Len(json.layers) :
                            layers'[i].activationFunction = json.layers[i].activationFunction]_vars

\* fromJSON was rejected for the activation-function name of the first layer of a document
\* whose other names are recognised
C16_Witness ==
    /\ op = "fromJSON" /\ res = "UnknownFunction"
    /\ Len(arg.json.layers) >= 2
    /\ arg.json.layers[1].activationFunction = "InvalidFunc"
    /\ arg.json.layers[2].activationFunction \in ActivationFunctionNames
    /\ arg.json.lossFunction \in LossFunctionNames
    /\ Len(layers) = Len(arg.json.layers)

\* C17: once the network is constructed, no step of setInputSignals, forward, backward,
\* calculateLoss or toJSON changes the number of layers, the number of neurons of a layer, a
\* layer's activation function, the number and order of the connections of a neuron, the
\* Signal a connection references, the output Signal of a neuron, or the input Signals; and a
\* setInputSignals step changes nothing but the values of the input Signals.
C17_StructureFixed ==
    [][pc # "new" =>
          /\ inputSignals' = inputSignals
          /\ Len(signals') = Len(signals)
          /\ Len(layers') = Len(layers)
          /\ \A i \in 1..Len(layers) :
                /\ layers'[i].activationFunction = layers[i].activationFunction
                /\ Len(layers'[i].neurons) = Len(layers[i].neurons)
                /\ \A j \in 1..Len(layers[i].neurons) :
                      /\ layers'[i].neurons[j].output = layers[i].neurons[j].output
                      /\ Len(layers'[i].neurons[j].inputs) = Len(layers[i].neurons[j].inputs)
                      /\ \A k \in 1..Len(layers[i].neurons[j].inputs) :
                            layers'[i].neurons[j].inputs[k].signal
                                = layers[i].neurons[j].inputs[k].signal
          /\ (op' = "setInputSignals" /\ pc = "idle") =>
                /\ layers' = layers
                /\ lossFunction' = lossFunction
                /\ rng' = rng
                /\ \A id \in 1..Len(signals) :
                      (\A k \in 1..Len(inputSignals) : inputSignals[k] # id)
                          => signals'[id] = signals[id]]_vars

\* setInputSignals succeeded on a network of several layers whose neurons hold the outputs
\* and pre-activations of an earlier forward pass
C17_Witness ==
    /\ op = "setInputSignals" /\ res = "ok"
    /\ Len(layers) >= 2
    /\ \E k \in 1..Len(inputSignals) : signals[inputSignals[k]] # 0
    /\ \E i \in 1..Len(layers) : \E j \in 1..Len(layers[i].neurons) :
          /\ signals[layers[i].neurons[j].output] # 0
          /\ layers[i].neurons[j].preActivation # 0

\* C18: the outputs (and pre-activations) forward leaves are a function of the architecture,
\* the weights, the biases and the input Signal values alone: they are those forward gives on
\* the same network with every pre-activation and every Signal that is not an input reset to
\* 0, so two networks equal in these give equal outputs whatever each went through before;
\* and no step after construction reads the random source.
C18_ForwardDeterminism ==
    [][/\ pc # "new" => rng' = rng
       /\ (op' = "forward" /\ pc = "idle" /\ steps' = steps + 1) =>
            LET fresh == [i \in 1..Len(layers) |-> [layers[i] EXCEPT !.neurons =
                             [j \in 1..Len(layers[i].neurons) |->
                                 [layers[i].neurons[j] EXCEPT !.preActivation = 0]]]]
                freshSignals == [id \in 1..Len(signals) |->
                                    IF \E k \in 1..Len(inputSignals) : inputSignals[k] = id
                                    THEN signals[id] ELSE 0]
                reference == ForwardLayers(fresh, 1, freshSignals)
            IN  /\ signals' = reference.signals
                /\ layers' = reference.layers]_vars

\* forward was the third call that changed the network, which has several layers, inputs and
\* outputs that are not 0
C18_Witness ==
    /\ op = "forward" /\ steps >= 3
    /\ Len(layers) >= 2
    /\ \E k \in 1..Len(inputSignals) : signals[inputSignals[k]] # 0
    /\ \E j \in 1..Len(lastLayer.neurons) : signals[lastLayer.neurons[j].output] # 0

\* C19: every expected-output vector NetworkTrainer.train passes to backward, for a network
\* created from layer sizes validateOptions accepts, is as long as the last layer and holds 1
\* at the sample's class and 0 elsewhere, so no backward call of the training is rejected with
\* ShapeMismatch.
C19_TrainerExpectedShape ==
    [][(op' = "backward" /\ pc = "idle") =>
          /\ Len(arg'.expectedOutput) = Len(lastLayer.neurons)
          /\ \E c \in 1..Len(lastLayer.neurons) :
                \A k \in 1..Len(arg'.expectedOutput) :
                    arg'.expectedOutput[k] = IF k = c THEN Unit ELSE 0
          /\ res' # "ShapeMismatch"]_vars

\* C20: ReLU, LeakyReLU, Sigmoid and Softmax, and the derivative of each, return for every
\* vector, the empty one included, a vector of as many elements; the derivative of Softmax is
\* 1 in every element.
C20_ActivationLengths ==
    op = "activation" =>
        /\ DOMAIN ret.values = 1..Len(arg.values)
        /\ DOMAIN ret.derivative = 1..Len(arg.values)
        /\ arg.activationFunction = "Softmax" =>
              \A k \in 1..Len(arg.values) : ret.derivative[k] = Unit

\* Softmax and its derivative were called on the empty vector
C20_Witness ==
    /\ op = "activation"
    /\ arg.activationFunction = "Softmax"
    /\ arg.values = <<>>
    /\ ret.values = <<>> /\ ret.derivative = <<>>

\* C21: for every vector v, ReLU(v) has at each index i the larger of 0 and v[i], and
\* ReLU.derivative(v) has there 1 if v[i] >= 0 and 0 otherwise, so 1 at exactly 0, where
\* LeakyReLU.derivative gives 0.01 (one grid unit).
C21_ReLUElementwise ==
    op = "activation" =>
        /\ arg.activationFunction = "ReLU" =>
              /\ Len(ret.values) = Len(arg.values)
              /\ Len(ret.derivative) = Len(arg.values)
              /\ \A i \in 1..Len(arg.values) :
                    /\ ret.values[i] = IF arg.values[i] > 0 THEN arg.values[i] ELSE 0
                    /\ ret.derivative[i] = IF arg.values[i] >= 0 THEN 100 ELSE 0
                    /\ arg.values[i] = 0 => ret.derivative[i] = 100
        /\ arg.activationFunction = "LeakyReLU" =>
              \A i \in 1..Len(arg.values) : arg.values[i] = 0 => ret.derivative[i] = 1

\* ReLU and its derivative were called on a vector holding a negative number, 0 and a
\* positive number
C21_Witness ==
    /\ op = "activation"
    /\ arg.activationFunction = "ReLU"
    /\ \E i, j, k \in 1..Len(arg.values) :
          /\ arg.values[i] < 0 /\ arg.values[j] = 0 /\ arg.values[k] > 0
          /\ ret.derivative[i] = 0 /\ ret.derivative[j] = Unit /\ ret.values[k] = arg.values[k]

\* C22: MSE.derivative and CrossEntropy.derivative both return, for predicted and expected
\* vectors, a vector as long as predicted whose element i is predicted[i] - expected[i]; and
\* MSE returns the sum over i of 0.5 * (predicted[i] - expected[i])^2, which is 2.5 for
\* [1, 2, 3] against [1, 1, 1].
C22_LossGradient ==
    op = "loss" =>
        /\ DOMAIN ret.derivative = 1..Len(arg.predicted)
        /\ \A i \in 1..Len(arg.predicted) :
              ret.derivative[i] = arg.predicted[i] - arg.expected[i]
        /\ arg.lossFunction = "MSE" =>
              /\ 2 * Unit * ret.value =
                    SumSeq([i \in 1..Len(arg.predicted) |->
                        (arg.predicted[i] - arg.expected[i]) * (arg.predicted[i] - arg.expected[i])])
              /\ (arg.predicted = <<100, 200, 300>> /\ arg.expected = <<100, 100, 100>>)
                    => ret.value = 250

\* CrossEntropy and its derivative were called on [1, 2, 3] against [1, 1, 1]
C22_Witness ==
    /\ op = "loss"
    /\ arg.lossFunction = "CrossEntropy"
    /\ arg.predicted = <<100, 200, 300>>
    /\ arg.expected = <<100, 100, 100>>
    /\ ret.derivative = <<0, 100, 200>>

\* C23 as stated: Softmax of a non-empty vector returns values that are all greater than 0 and
\* sum to 1 within the tolerance of the arithmetic (half a grid unit per element), also for
\* vectors of large magnitude; and after forward the outputs of a Softmax last layer sum to 1
\* within that tolerance.
C23_SoftmaxPositive ==
    /\ (op = "activation" /\ arg.activationFunction = "Softmax" /\ arg.values # <<>>) =>
          /\ \A i \in 1..Len(arg.values) : ret.values[i] > 0
          /\ 2 * Abs(SumSeq(ret.values) - Unit) <= Len(arg.values)
    /\ (op = "forward" /\ pc = "idle" /\ lastLayer.activationFunction = "Softmax") =>
          2 * Abs(SumSeq(outputValues(lastLayer, signals)) - Unit) <= Len(lastLayer.neurons)

\* C23, amended: Softmax of a non-empty vector returns values that are all at least 0, greater
\* than 0 at every element equal to the maximum, exactly 0 at every element so far below the
\* maximum that Math.exp of the difference underflows, and that sum to 1 within the tolerance;
\* and after forward the outputs of a Softmax last layer sum to 1 within that tolerance.
C23_SoftmaxNormalised ==
    /\ (op = "activation" /\ arg.activationFunction = "Softmax" /\ arg.values # <<>>) =>
          /\ Len(ret.values) = Len(arg.values)
          /\ \A i \in 1..Len(arg.values) :
                /\ ret.values[i] >= 0
                /\ (\A k \in 1..Len(arg.values) : arg.values[k] <= arg.values[i])
                      => ret.values[i] > 0
                /\ (\E k \in 1..Len(arg.values) : arg.values[i] - arg.values[k] <= -74514)
                      => ret.values[i] = 0
          /\ 2 * Abs(SumSeq(ret.values) - Unit) <= Len(arg.values)
    /\ (op = "forward" /\ pc = "idle" /\ lastLayer.activationFunction = "Softmax") =>
          /\ \A j \in 1..Len(lastLayer.neurons) : signals[lastLayer.neurons[j].output] >= 0
          /\ 2 * Abs(SumSeq(outputValues(lastLayer, signals)) - Unit) <= Len(lastLayer.neurons)

\* Softmax was called on a vector holding an element 1000 below the maximum, and returned 0
\* for it and 1 in all
C23_Witness ==
    /\ op = "activation"
    /\ arg.activationFunction = "Softmax"
    /\ \E i, k \in 1..Len(arg.values) :
          /\ arg.values[i] - arg.values[k] = -100000
          /\ ret.values[i] = 0
    /\ SumSeq(ret.values) = Unit

\* C25: in the network the constructor returns, every weight of a layer whose activation
\* function is Sigmoid is a value randomUniformXavier(fanIn, fanOut) drew, within the Xavier
\* limit sqrt(6 / (fanIn + fanOut)), and every weight of a layer with another activation
\* function a value randomNormalHe(fanIn) drew, fanIn being the number of neurons of the layer
\* before (of input Signals for the first layer) and fanOut that of the layer after (of the
\* layer itself for the last one); every bias is a value randomUniform(0, 0.05) drew, from 0
\* to 0.05.  The scheme is that of the layer's own activation function, whatever the other
\* layers use.
C25_InitPolicy ==
    (op = "constructor" /\ res = "ok") =>
        LET configs == arg.layerConfigs
            n == Len(configs)
            Draws == 0..rng.calls
        IN  \A i \in 1..n :
                LET fanIn == IF i = 1 THEN configs[1].neurons ELSE configs[i - 1].neurons
                    fanOut == IF i = n THEN configs[n].neurons ELSE configs[i + 1].neurons
                    limit == Sqrt(Div(6 * Unit, (fanIn + fanOut) * Unit))
                IN  \A j \in 1..configs[i].neurons :
                        LET neuron == layers[i].neurons[j]
                        IN  /\ neuron.bias >= 0 /\ neuron.bias <= 5
                            /\ \E c \in Draws :
                                  neuron.bias = randomUniform(0, 5, rng.seed, c).value
                            /\ Len(neuron.inputs) = fanIn
                            /\ \A k \in 1..fanIn :
                                  IF configs[i].activationFunction = "Sigmoid"
                                  THEN /\ neuron.inputs[k].weight >= -limit
                                       /\ neuron.inputs[k].weight <= limit
                                       /\ \E c \in Draws :
                                             neuron.inputs[k].weight =
                                                 randomUniformXavier(fanIn, fanOut, rng.seed, c).value
                                  ELSE \E c \in Draws :
                                           neuron.inputs[k].weight =
                                               randomNormalHe(fanIn, rng.seed, c).value

\* a network was constructed whose first layer is not Sigmoid and holds a weight beyond the
\* Xavier limit of the Sigmoid layer that follows it
C25_Witness ==
    /\ op = "constructor" /\ res = "ok"
    /\ Len(layers) >= 2
    /\ layers[1].activationFunction # "Sigmoid"
    /\ layers[2].activationFunction = "Sigmoid"
    /\ \E j \in 1..Len(layers[1].neurons) : \E k \in 1..Len(layers[1].neurons[j].inputs) :
          Abs(layers[1].neurons[j].inputs[k].weight) > 173

\* C26: in every state of a constructed or loaded network, whatever was called since, the
\* Input objects (connections) of all neurons are pairwise different objects, those of the
\* neurons of the first layer, which reference the same input Signals, included: no Input
\* belongs to two neurons or twice to one; so a weight written through one neuron's
\* connection is the weight of no other neuron's connection.
C26_NoAliasedConnections ==
    pc # "new" =>
        \A i1, i2 \in 1..Len(layers) :
            \A j1 \in 1..Len(layers[i1].neurons), j2 \in 1..Len(layers[i2].neurons) :
                \A k1 \in 1..Len(layers[i1].neurons[j1].inputs),
                   k2 \in 1..Len(layers[i2].neurons[j2].inputs) :
                    (layers[i1].neurons[j1].inputs[k1].id = layers[i2].neurons[j2].inputs[k2].id)
                        => (i1 = i2 /\ j1 = j2 /\ k1 = k2)

\* after a complete backward call on a network of several layers, two neurons of the first
\* layer hold connections to the same input Signal with different weights
C26_Witness ==
    /\ op = "backward" /\ res = "ok"
    /\ Len(layers) >= 2
    /\ \E j1, j2 \in 1..Len(layers[1].neurons) : \E k \in 1..Len(inputSignals) :
          /\ j1 # j2
          /\ layers[1].neurons[j1].inputs[k].signal = layers[1].neurons[j2].inputs[k].signal
          /\ layers[1].neurons[j1].inputs[k].weight # layers[1].neurons[j2].inputs[k].weight

\* C27: a forward call changes only pre-activations and the values of the neurons' output
\* Signals: no weight, no bias and no input Signal value; every step of a backward call
\* changes only weights and biases: no Signal value, input or output, and no pre-activation.
\* So the loss calculateLoss would return for any expected vector is the same before and after
\* each step of backward, hence before and after the call, and a forward call that follows a
\* forward call directly leaves every output and pre-activation as it is.
C27_DisjointWrites ==
    [][/\ (op' = "forward" /\ pc = "idle" /\ steps' = steps + 1) =>
            /\ \A k \in 1..Len(inputSignals) : signals'[inputSignals[k]] = signals[inputSignals[k]]
            /\ Len(layers') = Len(layers)
            /\ \A i \in 1..Len(layers) : \A j \in 1..Len(layers[i].neurons) :
                  /\ layers'[i].neurons[j].bias = layers[i].neurons[j].bias
                  /\ layers'[i].neurons[j].inputs = layers[i].neurons[j].inputs
            /\ op = "forward" => (signals' = signals /\ layers' = layers)
       /\ ((op' = "backward" /\ pc = "idle") \/ pc \in {"outputDelta", "hiddenDelta", "update"}) =>
            /\ signals' = signals
            /\ Len(layers') = Len(layers)
            /\ \A i \in 1..Len(layers) : PreActivations(layers'[i]) = PreActivations(layers[i])
            /\ \A e \in ExpectedVectors(Len(lastLayer.neurons)) :
                  Len(e) = Len(lastLayer.neurons) =>
                      Loss(lossFunction', outputValues(layers'[Len(layers')], signals'), e)
                          = Loss(lossFunction, outputValues(lastLayer, signals), e)]_vars

\* a backward call that followed a forward pass is complete: it changed weights, so that a
\* forward pass now would change the outputs, which still are those of before the call
C27_Witness ==
    /\ op = "backward" /\ res = "ok" /\ pc = "idle"
    /\ Len(layers) >= 2
    /\ \E j \in 1..Len(lastLayer.neurons) : signals[lastLayer.neurons[j].output] # 0
    /\ ForwardLayers(layers, 1, signals).signals # signals

\* C28: only a forward call writes output values and pre-activations: every other step of a
\* constructed network (setInputSignals, each step of backward, calculateLoss, toJSON, the
\* tests' assignments) leaves those of every layer as they are, so what backward and
\* calculateLoss read is what the most recent forward call stored.  calculateLoss returns the
\* loss of the stored outputs; backward computes the output deltas from the stored outputs
\* and pre-activations, also when the inputs or the weights have changed since; and its
\* update uses the current values of the input Signals for the weights of the first layer.
C28_ForwardStateReused ==
    [][/\ (pc # "new" /\ ~(op' = "forward" /\ steps' = steps + 1)) =>
            /\ Len(layers') = Len(layers)
            /\ \A i \in 1..Len(layers) :
                  /\ PreActivations(layers'[i]) = PreActivations(layers[i])
                  /\ outputValues(layers'[i], signals') = outputValues(layers[i], signals)
       /\ (op' = "calculateLoss" /\ pc = "idle" /\ res' = "ok") =>
            ret' = Loss(lossFunction, outputValues(lastLayer, signals), arg')
       /\ pc = "outputDelta" =>
            LET stored == outputValues(lastLayer, signals)
                slope == ActivationDerivative(lastLayer.activationFunction,
                                              PreActivations(lastLayer))
            IN  \A n \in 1..Len(lastLayer.neurons) :
                    bw'.deltaMatrix[Len(layers)][n] =
                        IF lastLayer.activationFunction = "Softmax"
                        THEN stored[n] - bw.expectedOutput[n]
                        ELSE Mul(stored[n] - bw.expectedOutput[n], slope[n])
       /\ pc = "update" =>
            \A j \in 1..Len(layers[1].neurons) : \A k \in 1..Len(inputSignals) :
                layers'[1].neurons[j].inputs[k].weight =
                    layers[1].neurons[j].inputs[k].weight -
                    Mul(bw.learningRate, Mul(bw.deltaMatrix[1][j], signals[inputSignals[k]]))]_vars

\* backward has computed its deltas on a network of several layers whose stored outputs are
\* those of an earlier forward pass and no longer those a forward pass would give now, and
\* the deltas differ from those it would have computed after a forward pass
C28_Witness ==
    /\ pc = "update"
    /\ Len(layers) >= 2
    /\ \E j \in 1..Len(lastLayer.neurons) : lastLayer.neurons[j].preActivation # 0
    /\ LET f == ForwardLayers(layers, 1, signals)
       IN  /\ f.signals # signals
           /\ bw.deltaMatrix # ReferenceDeltas(f.layers, lossFunction, f.signals, bw.expectedOutput)
           /\ bw.deltaMatrix = ReferenceDeltas(layers, lossFunction, signals, bw.expectedOutput)

\* C29: NetworkTrainer.train calls the network strictly in sequence.  Per epoch and sample it
\* calls setInputSignals with the sample's input (after the construction, the saving of the
\* earlier epoch, or the completed backward of the sample before), then forward (right after
\* that setInputSignals returned), then backward with the sample's expected output and the
\* learning rate (right after that forward, the input Signals still holding the sample's
\* input), and the steps of a backward follow with no other call between them; the model is
\* saved once per epoch, when every sample of the epoch has been taken and the backward of the
\* last has completed, without changing the network, and the next epoch starts at its first
\* sample; no call is made after the last epoch.
C29_TrainSequential ==
    [][/\ op' \in {"constructor", "setInputSignals", "forward", "backward", "toJSON"}
       /\ pc # "new" => op' # "constructor"
       /\ pc # "new" => trainer.epoch < trainer.epochs
       /\ (pc = "idle" /\ op' = "setInputSignals") =>
            /\ trainer.i < Len(trainer.data)
            /\ arg' = flattenImage(trainer.data[trainer.i + 1].imageData)
            /\ trainer' = [trainer EXCEPT !.i = trainer.i + 1]
            /\ res = "ok"
            /\ IF trainer.i = 0 THEN op \in {"constructor", "toJSON"} ELSE op = "backward"
       /\ (pc = "idle" /\ op' = "forward") =>
            /\ op = "setInputSignals" /\ res = "ok"
            /\ trainer.i \in 1..Len(trainer.data)
            /\ arg = flattenImage(trainer.data[trainer.i].imageData)
            /\ \A k \in 1..Len(inputSignals) : signals[inputSignals[k]] = arg[k]
            /\ trainer' = trainer
       /\ (pc = "idle" /\ op' = "backward") =>
            /\ op = "forward"
            /\ trainer.i \in 1..Len(trainer.data)
            /\ LET sample == trainer.data[trainer.i]
                   input == flattenImage(sample.imageData)
               IN  /\ \A k \in 1..Len(inputSignals) : signals[inputSignals[k]] = input[k]
                   /\ arg'.expectedOutput = createExpectedOutput(sample.result, NumClasses)
                   /\ arg'.learningRate = trainer.learningRate
            /\ trainer' = trainer
       /\ pc \in {"outputDelta", "hiddenDelta", "update"} =>
            /\ op' = "backward"
            /\ arg' = arg
            /\ trainer' = trainer
       /\ (pc = "idle" /\ op' = "toJSON") =>
            /\ trainer.i = Len(trainer.data)
            /\ res = "ok"
            /\ IF Len(trainer.data) = 0 THEN op \in {"constructor", "toJSON"} ELSE op = "backward"
            /\ trainer' = [trainer EXCEPT !.epoch = trainer.epoch + 1, !.i = 0]
            /\ UNCHANGED <<layers, inputSignals, lossFunction, signals>>]_vars

\* the model was saved at the end of the last of several epochs of several samples, each taken
\* through setInputSignals, forward and a backward that completed
C29_Witness ==
    /\ op = "toJSON"
    /\ Len(trainer.data) > 1
    /\ trainer.epochs > 1
    /\ trainer.epoch = trainer.epochs
    /\ steps >= trainer.epochs * Len(trainer.data) * 3

\* the number of elements of array equal to element
Occurrences(array, element) == Cardinality({index \in 1..Len(array) : array[index] = element})

\* C30: shuffleData(data) returns an array as long as data that holds every element as many
\* times as data does, whatever randomInt(0, i) returns, which is always an integer in 0..i;
\* the array of the caller is never written, during the call or after; and for data of 0 or
\* 1 elements the array returned equals data.
C30_ShufflePermutation ==
    op = "shuffleData" =>
        /\ ret.data = arg
        /\ ret.randomIndex \in 0..(ret.i + 1)
        /\ res = "ok" =>
              /\ Len(ret.shuffled) = Len(arg)
              /\ \A element \in ShuffleElements :
                    Occurrences(ret.shuffled, element) = Occurrences(arg, element)
              /\ Len(arg) <= 1 => ret.shuffled = arg

\* shuffleData has returned an array of three different elements with every element at
\* another place, the index drawn last being 0
C30_Witness ==
    /\ op = "shuffleData"
    /\ res = "ok"
    /\ arg = <<1, 2, 3>>
    /\ ret.shuffled = <<2, 3, 1>>
    /\ ret.randomIndex = 0

====
